---- MODULE Spec2Model ----
(***************************************************************************)
(* Model of the trading orchestration engine of algo-trading-bot:          *)
(*   - E_risk_management.check_risk       (the risk gate)                  *)
(*   - W_trade_manager.close_position     (close transition)               *)
(*   - W_trade_manager.get_atm_option_instrument                           *)
(*   - W_trade_manager.manage_trades      (the orchestrator loop)          *)
(*   - trading_bot.AlgoTradingBot          (run_bot and what it calls)      *)
(*   - strategies.strategy_01.generate_signal and                          *)
(*     C_strategy.process_market_data     (the signal policy)              *)
(*   - G_trade_manager.manage_trades      (the loop on the instrument)     *)
(*   - place_order.AlpacaOrderManager.execute_signal                       *)
(*   - indicators.superTrend.supertrend   (the SuperTrend indicator)       *)
(*   - G_get_expiry.get_expiry_weekly_current_week                         *)
(* The broker, the quote source and the bar source are boundaries: each    *)
(* call returns one of the outcomes its code can return (a response or     *)
(* None), chosen nondeterministically. Inside manage_trades the signal of  *)
(* an iteration is any of the three the policy returns; the policy itself  *)
(* is computed from the bars in SigSpec.                                   *)
(*   - execute_buy_order / execute_sell_order: a response (truthy) or      *)
(*     None after an ApiException. manage_trades passes access_token as    *)
(*     an extra first argument that the signatures of D_order_execution    *)
(*     do not take; the model follows the call sites and their results.    *)
(*   - get_live_price: last_price or None.                                 *)
(*   - market_data / process_market_data: no bars, or bars with a signal   *)
(*     of 'buy', 'sell' or 'hold' (B_market_data currently returns a fixed *)
(*     13-bar sample in place of the live fetch it has commented out).     *)
(*   - get_trading_instrument: a table of option contracts, maybe empty.   *)
(* Prices are integers; time is counted in seconds and advances by the     *)
(* check interval at each sleep.                                           *)
(***************************************************************************)
EXTENDS Integers, Sequences, FiniteSets, TLC

VARIABLES
    pc,                    \* position of manage_trades in its code
    elapsed,               \* time.time() - start_time, in seconds
    iteration,             \* manage_trades: iteration
    trade_history,         \* manage_trades: trade_history (the ledger)
    current_pnl,           \* manage_trades: current_pnl (realized P&L)
    last_signal,           \* manage_trades: last_signal
    current_position,      \* manage_trades: current_position ('CE', 'PE' or None)
    position_entry_price,  \* manage_trades: position_entry_price
    position_instrument,   \* manage_trades: position_instrument
    current_position_pnl,  \* manage_trades: current_position_pnl
    risk_result,           \* manage_trades: risk_result
    signal,                \* manage_trades: signal
    summary,               \* manage_trades: summary (the returned dict)
    broker,                \* the broker's book: instrument -> filled buys minus filled sells
    iter_orders,           \* orders issued since the current iteration began
    hist,                  \* observations of the run used to state the properties
    bot,                   \* trading_bot.AlgoTradingBot: the object and its run_bot call
    strategy               \* the caller of process_market_data: its frame and the result

vars == << pc, elapsed, iteration, trade_history, current_pnl, last_signal,
           current_position, position_entry_price, position_instrument,
           current_position_pnl, risk_result, signal, summary, broker,
           iter_orders, hist, bot, strategy >>

----------------------------------------------------------------------------
(* Configuration (Y_config.load_env) and the ranges of the boundary values *)

QUANTITY == 1
STOP_LOSS == 1
TAKE_PROFIT == 2
MAX_DAILY_LOSS == 2
MAX_TRADES_PER_DAY == 2
\* a check interval of no length
ZERO_CHECK_INTERVAL == 1 - 1

TRADE_CHECK_INTERVAL == 1
MAX_RUNTIME == 4

MaxPrice == 2                      \* option quotes range over 1..MaxPrice
NoPrice == 0 - 1                   \* get_live_price returning None
NoneStr == "None"                  \* None of a string-valued variable

Prices == 1..MaxPrice
LivePrices == Prices \cup {NoPrice}

\* quotes of the underlying index seen by the strike selection
UnderlyingPrices == {NoPrice, 100, 125, 140}

Signals == {"buy", "sell", "hold"}

\* outcomes of get_trading_instrument(): the contracts of the current expiry
CE150 == [instrument_key |-> "CE150", instrument_type |-> "CE", strike |-> 150]
PE100 == [instrument_key |-> "PE100", instrument_type |-> "PE", strike |-> 100]
InstrumentTables == { << >>, << CE150 >>, << CE150, PE100 >> }
InstrumentKeys == {"CE150", "PE100"}

----------------------------------------------------------------------------
(* E_risk_management.check_risk *)

\* check_risk with the position-level conditions tested first
check_risk_stops_first(th, pnl, position_pnl) ==
    IF position_pnl <= -STOP_LOSS
    THEN [continue_trading |-> FALSE, reason |-> "STOP_LOSS"]
    ELSE IF position_pnl >= TAKE_PROFIT
    THEN [continue_trading |-> FALSE, reason |-> "TAKE_PROFIT"]
    ELSE IF pnl <= -MAX_DAILY_LOSS
    THEN [continue_trading |-> FALSE, reason |-> "MAX_DAILY_LOSS"]
    ELSE IF Len(th) >= MAX_TRADES_PER_DAY
    THEN [continue_trading |-> FALSE, reason |-> "MAX_TRADES_PER_DAY"]
    ELSE [continue_trading |-> TRUE, reason |-> NoneStr]

\* check_risk keeping its result dict between calls: a call in which no
\* condition holds returns the dict as the previous call left it
check_risk_keeps_result(th, pnl, position_pnl) ==
    IF pnl <= -MAX_DAILY_LOSS
    THEN [continue_trading |-> FALSE, reason |-> "MAX_DAILY_LOSS"]
    ELSE IF Len(th) >= MAX_TRADES_PER_DAY
    THEN [continue_trading |-> FALSE, reason |-> "MAX_TRADES_PER_DAY"]
    ELSE IF position_pnl <= -STOP_LOSS
    THEN [continue_trading |-> FALSE, reason |-> "STOP_LOSS"]
    ELSE IF position_pnl >= TAKE_PROFIT
    THEN [continue_trading |-> FALSE, reason |-> "TAKE_PROFIT"]
    ELSE risk_result

\* check_risk stopping only when the ledger holds more than
\* MAX_TRADES_PER_DAY records
check_risk_counts_past_cap(th, pnl, position_pnl) ==
    IF pnl <= -MAX_DAILY_LOSS
    THEN [continue_trading |-> FALSE, reason |-> "MAX_DAILY_LOSS"]
    ELSE IF Len(th) > MAX_TRADES_PER_DAY
    THEN [continue_trading |-> FALSE, reason |-> "MAX_TRADES_PER_DAY"]
    ELSE IF position_pnl <= -STOP_LOSS
    THEN [continue_trading |-> FALSE, reason |-> "STOP_LOSS"]
    ELSE IF position_pnl >= TAKE_PROFIT
    THEN [continue_trading |-> FALSE, reason |-> "TAKE_PROFIT"]
    ELSE [continue_trading |-> TRUE, reason |-> NoneStr]

check_risk(th, pnl, position_pnl) ==
    IF pnl <= -MAX_DAILY_LOSS
    THEN [continue_trading |-> FALSE, reason |-> "MAX_DAILY_LOSS"]
    ELSE IF Len(th) >= MAX_TRADES_PER_DAY
    THEN [continue_trading |-> FALSE, reason |-> "MAX_TRADES_PER_DAY"]
    ELSE IF position_pnl <= -STOP_LOSS
    THEN [continue_trading |-> FALSE, reason |-> "STOP_LOSS"]
    ELSE IF position_pnl >= TAKE_PROFIT
    THEN [continue_trading |-> FALSE, reason |-> "TAKE_PROFIT"]
    ELSE [continue_trading |-> TRUE, reason |-> NoneStr]

NoRisk == [continue_trading |-> TRUE, reason |-> NoneStr]

----------------------------------------------------------------------------
(* W_trade_manager.get_atm_option_instrument *)

\* Python round(): to the nearest integer, a tie to the even one
round_div(x, d) ==
    LET q == x \div d
        r == x % d
    IN  IF 2 * r < d THEN q
        ELSE IF 2 * r > d THEN q + 1
        ELSE IF q % 2 = 0 THEN q ELSE q + 1

Abs(x) == IF x < 0 THEN -x ELSE x

\* the first row of a non-empty table whose strike_diff is minimal (idxmin)
first_nearest(rows, atm_strike) ==
    LET best == CHOOSE i \in 1..Len(rows) :
                  /\ \A j \in 1..Len(rows) :
                        Abs(rows[i].strike - atm_strike) <= Abs(rows[j].strike - atm_strike)
                  /\ \A j \in 1..(i - 1) :
                        Abs(rows[j].strike - atm_strike) > Abs(rows[i].strike - atm_strike)
    IN  rows[best]

get_atm_option_instrument(instruments_df, underlying_price, option_type) ==
    LET IsType(row) == row.instrument_type = option_type
        options_df == SelectSeq(instruments_df, IsType)
        atm_strike == round_div(underlying_price, 50) * 50
        IsAtm(row) == row.strike = atm_strike
        atm_options == SelectSeq(options_df, IsAtm)
    IN  IF Len(instruments_df) = 0 THEN NoneStr
        ELSE IF Len(options_df) = 0 THEN NoneStr
        ELSE IF Len(atm_options) > 0 THEN atm_options[1].instrument_key
        ELSE first_nearest(options_df, atm_strike).instrument_key

----------------------------------------------------------------------------
(* W_trade_manager.close_position *)

\* the record appended to trade_history (entry_time is datetime.now())
TradeRecord(now, entry_price, exit_price, quantity, trade_pnl, position, instrument) ==
    [entry_time |-> now, entry_price |-> entry_price, exit_price |-> exit_price,
     quantity |-> quantity, pnl |-> trade_pnl, signal |-> position,
     instrument |-> instrument]

\* close_position with the new record put at the head of the ledger
close_position_prepends(instrument, entry_price, position, th, pnl, quantity, sell_result, live, now) ==
    IF sell_result
    THEN LET exit_price == IF live = NoPrice THEN entry_price ELSE live
             trade_pnl == (exit_price - entry_price) * quantity
         IN  [current_position |-> NoneStr, position_instrument |-> NoneStr,
              position_entry_price |-> 0, current_pnl |-> pnl + trade_pnl,
              trade_history |-> << TradeRecord(now, entry_price, exit_price,
                                       quantity, trade_pnl, position, instrument) >> \o th]
    ELSE [current_position |-> NoneStr, position_instrument |-> NoneStr,
          position_entry_price |-> 0, current_pnl |-> pnl, trade_history |-> th]

\* close_position appending the record without adding its P&L to current_pnl
close_position_drops_pnl(instrument, entry_price, position, th, pnl, quantity, sell_result, live, now) ==
    IF sell_result
    THEN LET exit_price == IF live = NoPrice THEN entry_price ELSE live
             trade_pnl == (exit_price - entry_price) * quantity
         IN  [current_position |-> NoneStr, position_instrument |-> NoneStr,
              position_entry_price |-> 0, current_pnl |-> pnl,
              trade_history |-> Append(th, TradeRecord(now, entry_price, exit_price,
                                          quantity, trade_pnl, position, instrument))]
    ELSE [current_position |-> NoneStr, position_instrument |-> NoneStr,
          position_entry_price |-> 0, current_pnl |-> pnl, trade_history |-> th]

\* close_position taking 0 for the exit price when the exit quote is
\* unavailable
close_position_exit_zero(instrument, entry_price, position, th, pnl, quantity, sell_result, live, now) ==
    IF sell_result
    THEN LET exit_price == IF live = NoPrice THEN 0 ELSE live
             trade_pnl == (exit_price - entry_price) * quantity
         IN  [current_position |-> NoneStr, position_instrument |-> NoneStr,
              position_entry_price |-> 0, current_pnl |-> pnl + trade_pnl,
              trade_history |-> Append(th, TradeRecord(now, entry_price, exit_price,
                                          quantity, trade_pnl, position, instrument))]
    ELSE [current_position |-> NoneStr, position_instrument |-> NoneStr,
          position_entry_price |-> 0, current_pnl |-> pnl, trade_history |-> th]

\* close_position appending a record, with P&L 0, also when the sell is
\* rejected
close_position_records_rejected(instrument, entry_price, position, th, pnl, quantity, sell_result, live, now) ==
    LET exit_price == IF live = NoPrice THEN entry_price ELSE live
        trade_pnl == (exit_price - entry_price) * quantity
    IN  [current_position |-> NoneStr, position_instrument |-> NoneStr,
         position_entry_price |-> 0, current_pnl |-> pnl + trade_pnl,
         trade_history |-> Append(th, TradeRecord(now, entry_price, exit_price,
                                     quantity, trade_pnl, position, instrument))]

\* close_position returning the position it was given when the sell is
\* rejected
close_position_keeps_rejected(instrument, entry_price, position, th, pnl, quantity, sell_result, live, now) ==
    IF sell_result
    THEN LET exit_price == IF live = NoPrice THEN entry_price ELSE live
             trade_pnl == (exit_price - entry_price) * quantity
         IN  [current_position |-> NoneStr, position_instrument |-> NoneStr,
              position_entry_price |-> 0, current_pnl |-> pnl + trade_pnl,
              trade_history |-> Append(th, TradeRecord(now, entry_price, exit_price,
                                          quantity, trade_pnl, position, instrument))]
    ELSE [current_position |-> position, position_instrument |-> instrument,
          position_entry_price |-> entry_price, current_pnl |-> pnl, trade_history |-> th]

\* sell_result: the outcome of execute_sell_order; live: the quote fetched
\* after a filled sell. Returns the four returned values and the ledger.
close_position(instrument, entry_price, position, th, pnl, quantity, sell_result, live, now) ==
    IF sell_result
    THEN LET exit_price == IF live = NoPrice THEN entry_price ELSE live
             trade_pnl == (exit_price - entry_price) * quantity
         IN  [current_position |-> NoneStr, position_instrument |-> NoneStr,
              position_entry_price |-> 0, current_pnl |-> pnl + trade_pnl,
              trade_history |-> Append(th, TradeRecord(now, entry_price, exit_price,
                                          quantity, trade_pnl, position, instrument))]
    ELSE [current_position |-> NoneStr, position_instrument |-> NoneStr,
          position_entry_price |-> 0, current_pnl |-> pnl, trade_history |-> th]

\* open_position recording the position without looking at buy_result
open_position_ignores_result(position, instrument, entry_price, option_type, option_instrument, buy_result, live) ==
    [current_position |-> option_type, position_instrument |-> option_instrument,
     position_entry_price |-> IF live # NoPrice THEN live ELSE 0]

\* the position variables after execute_buy_order and the entry-price fetch
open_position(position, instrument, entry_price, option_type, option_instrument, buy_result, live) ==
    IF buy_result
    THEN [current_position |-> option_type, position_instrument |-> option_instrument,
          position_entry_price |-> IF live # NoPrice THEN live ELSE 0]
    ELSE [current_position |-> position, position_instrument |-> instrument,
          position_entry_price |-> entry_price]

----------------------------------------------------------------------------
(* The broker's book and the order log *)

Order(side, instrument, ok, phase, held) ==
    [side |-> side, instrument |-> instrument, ok |-> ok, phase |-> phase, held |-> held]

Fill(book, side, instrument, ok) ==
    IF ~ok THEN book
    ELSE IF side = "buy" THEN [book EXCEPT ![instrument] = @ + 1]
    ELSE [book EXCEPT ![instrument] = @ - 1]

RECURSIVE SumBook(_, _)
SumBook(book, keys) ==
    IF keys = {} THEN 0
    ELSE LET k == CHOOSE x \in keys : TRUE
         IN  book[k] + SumBook(book, keys \ {k})

OpenAtBroker == SumBook(broker, InstrumentKeys)

Holding == current_position # NoneStr
Flat == current_position = NoneStr

----------------------------------------------------------------------------
(* trading_bot.AlgoTradingBot and the part of place_order.AlpacaOrderManager *)
(* it relies on. Time is counted in check intervals; signal timestamps are  *)
(* bar numbers; an execution result is the number of orders in its list.    *)

\* config.RISK_MANAGEMENT['max_daily_trades'] is 10; the limit is scaled down
\* so that a run of a few cycles reaches it
max_daily_trades == 2
max_open_positions == 5            \* config.RISK_MANAGEMENT['max_open_positions']
regular_hours_only == TRUE         \* config.TRADING_SESSIONS['regular_hours_only']

MaxBotRuntime == 2                 \* run_bot: max_runtime, in check intervals
MaxBotTime == 3                    \* bar timestamps range over 1..MaxBotTime

NoTime == 0                        \* last_signal_time = None
NoResult == 0 - 1                  \* execute_signal returning None
BotSignals == {0 - 1, 0, 1}        \* sell, hold, buy
BotTimes == 1..MaxBotTime
BotHours == {8, 9, 15, 16}         \* datetime.now().hour around the session limits
PositionCounts == {0, 4, 5}        \* len(order_manager.get_positions())

\* no execute_trade call in the cycle
NoAttempt == [called |-> FALSE, signal |-> 0, timestamp |-> NoTime, orders |-> NoResult]

\* the object after __init__; is_connected is set by AlpacaOrderManager.__init__
AlgoTradingBot(is_connected) ==
    [pc |-> "run_bot", is_connected |-> is_connected, is_running |-> FALSE,
     last_signal_time |-> NoTime, last_signal |-> 0, daily_trades |-> 0,
     trade_history |-> << >>, elapsed |-> 0, cycles |-> 0, orders |-> 0,
     connection |-> NoneStr, shutdown_done |-> FALSE,
     position |-> 0, attempt |-> NoAttempt]

----------------------------------------------------------------------------
(* strategies.strategy_01.generate_signal and C_strategy.process_market_data *)
(* A frame holds the Close and Volume columns of the bars. The EMAs are     *)
(* computed exactly: with spans 9 and 15 the smoothing factors are 1/5 and  *)
(* 1/8, so the EMAs of bar t (counted from 0) times 40^t are integers; they *)
(* are kept as sequences of digits in base 10^6, lowest digit first.        *)

Base == 1000000

\* a natural number below 2^31 as a digit sequence
BigOfInt(n) ==
    IF n = 0 THEN << >>
    ELSE IF n < Base THEN << n >>
    ELSE << n % Base, n \div Base >>

RECURSIVE BigAddC(_, _, _)
BigAddC(a, b, carry) ==
    IF a = << >> /\ b = << >>
    THEN BigOfInt(carry)
    ELSE LET x == IF a = << >> THEN 0 ELSE Head(a)
             y == IF b = << >> THEN 0 ELSE Head(b)
             t == x + y + carry
         IN  << t % Base >> \o BigAddC(IF a = << >> THEN a ELSE Tail(a),
                                       IF b = << >> THEN b ELSE Tail(b), t \div Base)

BigAdd(a, b) == BigAddC(a, b, 0)

RECURSIVE BigMulC(_, _, _)
BigMulC(a, k, carry) ==
    IF a = << >>
    THEN BigOfInt(carry)
    ELSE LET t == Head(a) * k + carry
         IN  << t % Base >> \o BigMulC(Tail(a), k, t \div Base)

\* a digit sequence times a natural number below 2000, so that a digit
\* times it plus the carry stays below 2^31
BigMul(a, k) == IF k = 0 THEN << >> ELSE BigMulC(a, k, 0)

RECURSIVE BigLessFrom(_, _, _)
BigLessFrom(a, b, i) ==
    IF i = 0 THEN FALSE
    ELSE IF a[i] # b[i] THEN a[i] < b[i]
    ELSE BigLessFrom(a, b, i - 1)

BigLess(a, b) ==
    IF Len(a) # Len(b) THEN Len(a) < Len(b) ELSE BigLessFrom(a, b, Len(a))

\* the EMAs of a one-bar series: ema9 and ema15 are the EMAs of the latest
\* bar times scale, prev9 and prev15 those of the bar before times scale,
\* prev2_9 the 9-EMA of two bars before times scale; scale is 40^t at bar t
ema_first(close) ==
    [ema9 |-> BigOfInt(close), ema15 |-> BigOfInt(close),
     prev9 |-> << >>, prev15 |-> << >>, prev2_9 |-> << >>, scale |-> << 1 >>]

\* one step of ewm(span, adjust=False).mean() for spans 9 and 15:
\* ema9' = (close + 4 * ema9) / 5, ema15' = (close + 7 * ema15) / 8
ema_next(e, close) ==
    [ema9 |-> BigAdd(BigMul(BigMul(e.scale, 8), close), BigMul(e.ema9, 32)),
     ema15 |-> BigAdd(BigMul(BigMul(e.scale, 5), close), BigMul(e.ema15, 35)),
     prev9 |-> BigMul(e.ema9, 40),
     prev15 |-> BigMul(e.ema15, 40),
     prev2_9 |-> BigMul(e.prev9, 40),
     scale |-> BigMul(e.scale, 40)]

RECURSIVE ema_from(_, _, _)
ema_from(closes, i, e) ==
    IF i > Len(closes) \/ e.scale = << >> THEN e
    ELSE ema_from(closes, i + 1, ema_next(e, closes[i]))

\* calculate_ema for spans 9 and 15 together, over the whole Close column
calculate_ema(closes) == ema_from(closes, 2, ema_first(closes[1]))

RECURSIVE SumSeq(_, _, _)
SumSeq(q, from, to) == IF from > to THEN 0 ELSE q[from] + SumSeq(q, from + 1, to)

\* the frame argument None; columns tells whether the frame carries the
\* columns EMA_9, EMA_15 and Avg_Volume_10 that a call has added to it
NoFrame == [none |-> TRUE, Close |-> << >>, Volume |-> << >>, columns |-> FALSE]

\* lines 57-97 of generate_signal for a frame of 3 or more bars: the
\* indicators of the latest bars and the conditions computed from them. The
\* rolling mean of fewer than 10 bars is NaN and compares False.
conditions(frame) ==
    LET n == Len(frame.Close)
        e == calculate_ema(frame.Close)
        current_close == BigMul(e.scale, frame.Close[n])
    IN  [bullish_crossover |-> ~BigLess(e.prev15, e.prev9) /\ BigLess(e.ema15, e.ema9),
         bearish_crossover |-> ~BigLess(e.prev9, e.prev15) /\ BigLess(e.ema9, e.ema15),
         price_above_emas |-> BigLess(e.ema9, current_close) /\ BigLess(e.ema15, current_close),
         price_below_emas |-> BigLess(current_close, e.ema9) /\ BigLess(current_close, e.ema15),
         volume_confirmation |->
             n >= 10 /\ 10 * frame.Volume[n] > SumSeq(frame.Volume, n - 9, n),
         bullish_momentum |-> frame.Close[n] > frame.Close[n - 1],
         bearish_momentum |-> frame.Close[n] < frame.Close[n - 1],
         ema_9_rising |-> BigLess(e.prev2_9, e.ema9),
         ema_9_falling |-> BigLess(e.ema9, e.prev2_9),
         ema_9_above |-> BigLess(e.ema15, e.ema9),
         ema_9_below |-> BigLess(e.ema9, e.ema15),
         previous_ema_9_above |-> BigLess(e.prev15, e.prev9),
         previous_ema_9_below |-> BigLess(e.prev9, e.prev15),
         gap_up_widening |-> BigLess(BigAdd(e.prev9, e.ema15), BigAdd(e.ema9, e.prev15)),
         gap_down_widening |-> BigLess(BigAdd(e.prev15, e.ema9), BigAdd(e.ema15, e.prev9))]

\* the decision with the crossover rules only (lines 100-113)
decide_crossover_only(c) ==
    IF c.bullish_crossover /\ c.price_above_emas /\ c.volume_confirmation
       /\ c.bullish_momentum /\ c.ema_9_rising
    THEN "buy"
    ELSE IF c.bearish_crossover /\ c.price_below_emas /\ c.volume_confirmation
            /\ c.bearish_momentum /\ c.ema_9_falling
    THEN "sell"
    ELSE "hold"

\* the decision with trend continuation not asking for volume confirmation
decide_continuation_any_volume(c) ==
    IF c.bullish_crossover /\ c.price_above_emas /\ c.volume_confirmation
       /\ c.bullish_momentum /\ c.ema_9_rising
    THEN "buy"
    ELSE IF c.bearish_crossover /\ c.price_below_emas /\ c.volume_confirmation
            /\ c.bearish_momentum /\ c.ema_9_falling
    THEN "sell"
    ELSE IF c.ema_9_above /\ c.previous_ema_9_above /\ c.price_above_emas
            /\ c.bullish_momentum /\ c.gap_up_widening
    THEN "buy"
    ELSE IF c.ema_9_below /\ c.previous_ema_9_below /\ c.price_below_emas
            /\ c.bearish_momentum /\ c.gap_down_widening
    THEN "sell"
    ELSE "hold"

\* lines 100-134 of generate_signal: the decision
decide(c) ==
    IF c.bullish_crossover /\ c.price_above_emas /\ c.volume_confirmation
       /\ c.bullish_momentum /\ c.ema_9_rising
    THEN "buy"
    ELSE IF c.bearish_crossover /\ c.price_below_emas /\ c.volume_confirmation
            /\ c.bearish_momentum /\ c.ema_9_falling
    THEN "sell"
    ELSE IF c.ema_9_above /\ c.previous_ema_9_above /\ c.price_above_emas
            /\ c.bullish_momentum /\ c.volume_confirmation /\ c.gap_up_widening
    THEN "buy"
    ELSE IF c.ema_9_below /\ c.previous_ema_9_below /\ c.price_below_emas
            /\ c.bearish_momentum /\ c.volume_confirmation /\ c.gap_down_widening
    THEN "sell"
    ELSE "hold"

\* lines 56-134 of generate_signal. Reading iloc[-2] or iloc[-3] of a frame
\* of fewer than 3 bars raises IndexError.
signal_of_indicators(frame) ==
    IF Len(frame.Close) < 3 THEN "IndexError" ELSE decide(conditions(frame))

\* generate_signal without the test of line 53
generate_signal_any_length(frame) ==
    IF frame.none \/ Len(frame.Close) = 0 THEN "hold"
    ELSE signal_of_indicators(frame)

\* generate_signal keeping the signal of its previous call: a buy or sell
\* that repeats the previous signal is returned as hold
generate_signal_keeps_signal(frame) ==
    LET s == IF frame.none \/ Len(frame.Close) = 0 THEN "hold"
             ELSE IF Len(frame.Close) < 20 THEN "hold"
             ELSE signal_of_indicators(frame)
    IN  IF s # "hold" /\ s = strategy.signal THEN "hold" ELSE s

\* strategy_01.generate_signal
generate_signal(frame) ==
    IF frame.none \/ Len(frame.Close) = 0 THEN "hold"
    ELSE IF Len(frame.Close) < 20 THEN "hold"
    ELSE signal_of_indicators(frame)

\* C_strategy.process_market_data
process_market_data(frame) ==
    IF frame.none \/ Len(frame.Close) = 0 THEN "hold"
    ELSE generate_signal(frame)

\* lines 57-61: the frame as a call leaves it, with the three columns
\* assigned when the call gets past the tests of lines 49-54
frame_after(frame) ==
    IF frame.none \/ Len(frame.Close) < 20 THEN frame
    ELSE [frame EXCEPT !.columns = TRUE]

MaxBars == 20                      \* frames of 0..MaxBars bars
MaxStep == 2                       \* a close differs from the one before by at most MaxStep
MaxJump == 50                      \* the latest close may jump by MaxJump

\* B_market_data: the first close (100.5) and the usual volume of the sample;
\* closes are counted in tenths
BaseClose == 1005
BaseVolume == 1300

Steps == (0 - MaxStep)..MaxStep
Jumps == {0 - MaxJump, 0, MaxJump}
TurnPoints == {1, 10}
VolumeSpikes == {0, 1}

Min(a, b) == IF a < b THEN a ELSE b

\* a Close column of n bars: steps of d1 for the first k bars after the
\* first, steps of d2 after them, and a jump of j on the latest bar
Closes(n, d1, d2, k, j) ==
    [i \in 1..n |-> BaseClose + d1 * Min(i - 1, k) + d2 * (i - 1 - Min(i - 1, k))
                    + (IF i = n THEN j ELSE 0)]

\* a Volume column of n bars, level but for w more on the latest bar
Volumes(n, w) == [i \in 1..n |-> BaseVolume + (IF i = n THEN w ELSE 0)]

\* the frames market_data may hand to process_market_data
Frames ==
    {NoFrame} \cup
    { [none |-> FALSE, Close |-> Closes(n, d1, d2, k, j), Volume |-> Volumes(n, w),
       columns |-> FALSE] :
          n \in 0..MaxBars, d1 \in Steps, d2 \in Steps, k \in TurnPoints,
          j \in Jumps, w \in VolumeSpikes }

\* a fresh frame of the same bars
FreshFrame(frame) == [frame EXCEPT !.columns = FALSE]

\* a fresh frame of another series: the closes mirrored at BaseClose
MirrorFrame(frame) ==
    [frame EXCEPT !.Close = [i \in 1..Len(frame.Close) |-> 2 * BaseClose - frame.Close[i]],
                  !.columns = FALSE]

\* no call of process_market_data remembered
NoSignalMemo == [made |-> FALSE, frame |-> NoFrame, signal |-> NoneStr]

\* no caller of process_market_data
NoSignalCall == [pc |-> "idle", frame |-> NoFrame, signal |-> NoneStr, memo |-> NoSignalMemo]

----------------------------------------------------------------------------
(* W_trade_manager.manage_trades *)

NoSummary == [total_trades |-> 0 - 1, profitable_trades |-> 0, losing_trades |-> 0,
              net_pnl |-> 0, win_rate_num |-> 0, win_rate_den |-> 1]

\* no call of the gate remembered
NoCall == [made |-> FALSE, trade_history |-> << >>, current_pnl |-> 0,
           current_position_pnl |-> 0, result |-> NoRisk]

InitHist == [gate_evaluated |-> FALSE, acted |-> FALSE, last_acted |-> NoneStr,
             failed_buy |-> NoneStr, prev_failed_buy |-> NoneStr,
             repeat |-> FALSE, sells_since_gate |-> 0, exit_sells |-> 0,
             exit_state |-> NoneStr, gate_memo |-> NoCall, sig_instrument |-> NoneStr,
             stopped_before |-> FALSE, no_quote |-> FALSE, quote |-> NoPrice,
             exit_quote |-> NoPrice]

Init ==
    /\ pc = "while"
    /\ elapsed = 0
    /\ iteration = 0
    /\ trade_history = << >>
    /\ current_pnl = 0
    /\ last_signal = NoneStr
    /\ current_position = NoneStr
    /\ position_entry_price = 0
    /\ position_instrument = NoneStr
    /\ current_position_pnl = 0
    /\ risk_result = NoRisk
    /\ signal = NoneStr
    /\ summary = NoSummary
    /\ broker = [k \in InstrumentKeys |-> 0]
    /\ iter_orders = << >>
    /\ hist = InitHist
    /\ bot = AlgoTradingBot(TRUE)
    /\ strategy = NoSignalCall

\* line 148, condition true: a new iteration begins (lines 149-157)
LoopEnter ==
    /\ pc = "while"
    /\ elapsed < MAX_RUNTIME
    /\ iteration' = iteration + 1
    /\ iter_orders' = << >>
    /\ hist' = [hist EXCEPT !.gate_evaluated = FALSE, !.acted = FALSE,
                            !.repeat = FALSE, !.failed_buy = NoneStr,
                            !.sig_instrument = NoneStr,
                            !.stopped_before =
                                risk_result.reason \in {"STOP_LOSS", "TAKE_PROFIT"},
                            !.no_quote = FALSE, !.quote = NoPrice, !.exit_quote = NoPrice]
    /\ pc' = "pnl"
    /\ UNCHANGED << elapsed, trade_history, current_pnl, last_signal, current_position,
                    position_entry_price, position_instrument, current_position_pnl,
                    risk_result, signal, summary, broker >>
    /\ UNCHANGED << bot, strategy >>

\* line 148, condition false: the runtime cap ends the loop
LoopExit ==
    /\ pc = "while"
    /\ ~(elapsed < MAX_RUNTIME)
    /\ hist' = [hist EXCEPT !.exit_state = IF Holding THEN "Holding" ELSE "Flat"]
    /\ pc' = "final"
    /\ UNCHANGED << elapsed, iteration, trade_history, current_pnl, last_signal,
                    current_position, position_entry_price, position_instrument,
                    current_position_pnl, risk_result, signal, summary, broker,
                    iter_orders >>
    /\ UNCHANGED << bot, strategy >>

\* the unrealized P&L with a missing quote taken as a price of 0
position_pnl_zero_quote(position, entry_price, current_price, quantity) ==
    IF position # NoneStr /\ entry_price > 0
    THEN ((IF current_price = NoPrice THEN 0 ELSE current_price) - entry_price) * quantity
    ELSE 0

\* lines 159-172: unrealized P&L of the open position
position_pnl(position, entry_price, current_price, quantity) ==
    IF position # NoneStr /\ current_price # NoPrice /\ entry_price > 0
    THEN (current_price - entry_price) * quantity
    ELSE 0

\* the break of line 185 taken for every reason reported by the gate
AccountLevel_every_reason(reason) == reason # NoneStr

\* the break of line 185 taken for the daily-loss cap only
AccountLevel_daily_loss_only(reason) == reason \in {"MAX_DAILY_LOSS"}

\* line 185: the reasons that end the loop
AccountLevel(reason) == reason \in {"MAX_TRADES_PER_DAY", "MAX_DAILY_LOSS"}

\* the assignments of one close_position call made in phase `phase`
CloseCall(phase, sell_result, live) ==
    LET r == close_position(position_instrument, position_entry_price, current_position,
                            trade_history, current_pnl, QUANTITY, sell_result, live, elapsed)
    IN  /\ (~sell_result => live = NoPrice)          \* the quote is fetched after a fill
        /\ current_position' = r.current_position
        /\ position_instrument' = r.position_instrument
        /\ position_entry_price' = r.position_entry_price
        /\ current_pnl' = r.current_pnl
        /\ trade_history' = r.trade_history
        /\ broker' = Fill(broker, "sell", position_instrument, sell_result)
        /\ iter_orders' = Append(iter_orders,
                              Order("sell", position_instrument, sell_result, phase, Holding))

\* the P&L step selling a position at its stop loss at once, ahead of the gate
ComputePositionPnl_closes_first ==
    /\ pc = "pnl"
    /\ \E current_price \in LivePrices :
          /\ (Flat => current_price = NoPrice)
          /\ current_position_pnl' = position_pnl(current_position, position_entry_price,
                                                  current_price, QUANTITY)
          /\ hist' = [hist EXCEPT !.no_quote = Holding /\ current_price = NoPrice,
                                 !.quote = current_price, !.exit_quote = NoPrice]
    /\ IF Holding /\ current_position_pnl' <= -STOP_LOSS
       THEN \E sell_result \in BOOLEAN, live \in LivePrices :
                  CloseCall("risk", sell_result, live)
       ELSE UNCHANGED << current_position, position_instrument, position_entry_price,
                         current_pnl, trade_history, broker, iter_orders >>
    /\ pc' = "risk"
    /\ UNCHANGED << elapsed, iteration, last_signal, risk_result, signal, summary >>
    /\ UNCHANGED << bot, strategy >>

ComputePositionPnl ==
    /\ pc = "pnl"
    /\ \E current_price \in LivePrices :
          /\ (Flat => current_price = NoPrice)       \* no quote is fetched when flat
          /\ current_position_pnl' = position_pnl(current_position, position_entry_price,
                                                  current_price, QUANTITY)
          /\ hist' = [hist EXCEPT !.no_quote = Holding /\ current_price = NoPrice,
                                 !.quote = current_price, !.exit_quote = NoPrice]
    /\ pc' = "risk"
    /\ UNCHANGED << elapsed, iteration, trade_history, current_pnl, last_signal,
                    current_position, position_entry_price, position_instrument,
                    risk_result, signal, summary, broker, iter_orders >>
    /\ UNCHANGED << bot, strategy >>

\* lines 174-187: the risk gate, the risk-driven close and the break
RiskStep ==
    /\ pc = "risk"
    /\ LET rr == check_risk(trade_history, current_pnl, current_position_pnl)
       IN  /\ risk_result' = rr
           /\ IF ~rr.continue_trading /\ Holding
              THEN \E sell_result \in BOOLEAN, live \in LivePrices :
                      /\ CloseCall("risk", sell_result, live)
                      /\ hist' = [hist EXCEPT !.gate_evaluated = TRUE,
                                     !.sells_since_gate = 1,
                                     !.exit_sells = IF AccountLevel(rr.reason) THEN 1 ELSE @,
                                     !.exit_state = IF AccountLevel(rr.reason)
                                                    THEN "Holding" ELSE @,
                                     !.exit_quote = live]
              ELSE /\ UNCHANGED << current_position, position_instrument,
                                   position_entry_price, current_pnl, trade_history,
                                   broker, iter_orders >>
                   /\ hist' = [hist EXCEPT !.gate_evaluated = TRUE, !.sells_since_gate = 0,
                                  !.exit_state = IF ~rr.continue_trading /\ AccountLevel(rr.reason)
                                                 THEN "Flat" ELSE @]
           /\ pc' = IF ~rr.continue_trading /\ AccountLevel(rr.reason)
                    THEN "final" ELSE "fetch"
    /\ UNCHANGED << elapsed, iteration, last_signal, current_position_pnl, signal, summary >>
    /\ UNCHANGED << bot, strategy >>

\* the step for no bars recording a hold as the signal acted on
FetchNoData_records_hold ==
    /\ pc = "fetch"
    /\ elapsed' = elapsed + TRADE_CHECK_INTERVAL
    /\ last_signal' = "hold"
    /\ hist' = [hist EXCEPT !.prev_failed_buy = NoneStr, !.stopped_before = FALSE,
                            !.no_quote = FALSE, !.quote = NoPrice, !.exit_quote = NoPrice]
    /\ pc' = "while"
    /\ UNCHANGED << iteration, trade_history, current_pnl, current_position,
                    position_entry_price, position_instrument, current_position_pnl,
                    risk_result, signal, summary, broker, iter_orders >>
    /\ UNCHANGED << bot, strategy >>

\* lines 189-195: no bars; sleep and continue
FetchNoData ==
    /\ pc = "fetch"
    /\ elapsed' = elapsed + TRADE_CHECK_INTERVAL
    /\ hist' = [hist EXCEPT !.prev_failed_buy = NoneStr, !.stopped_before = FALSE,
                            !.no_quote = FALSE, !.quote = NoPrice, !.exit_quote = NoPrice]
    /\ pc' = "while"
    /\ UNCHANGED << iteration, trade_history, current_pnl, last_signal, current_position,
                    position_entry_price, position_instrument, current_position_pnl,
                    risk_result, signal, summary, broker, iter_orders >>
    /\ UNCHANGED << bot, strategy >>

\* lines 189-199: bars fetched and the signal computed from them
FetchAndSignal ==
    /\ pc = "fetch"
    /\ \E s \in Signals :
          /\ signal' = s
          /\ hist' = [hist EXCEPT !.repeat = (s = "hold" \/ s = hist.last_acted),
                                  !.sig_instrument = position_instrument,
                                  !.no_quote = FALSE, !.quote = NoPrice, !.exit_quote = NoPrice]
    /\ pc' = "decide"
    /\ UNCHANGED << elapsed, iteration, trade_history, current_pnl, last_signal,
                    current_position, position_entry_price, position_instrument,
                    current_position_pnl, risk_result, summary, broker, iter_orders >>
    /\ UNCHANGED << bot, strategy >>

\* line 202
NewSignal(sig, last) == sig # "hold" /\ sig # last

\* the signal step going to the open without closing the position it holds
SignalAct_direct_flip ==
    /\ pc = "decide"
    /\ NewSignal(signal, last_signal)
    /\ hist' = [hist EXCEPT !.acted = TRUE]
    /\ pc' = "open"
    /\ UNCHANGED << elapsed, iteration, trade_history, current_pnl, last_signal,
                    current_position, position_entry_price, position_instrument,
                    current_position_pnl, risk_result, signal, summary, broker,
                    iter_orders >>
    /\ UNCHANGED << bot, strategy >>

\* lines 202-210, condition true: close the open position before the new one
SignalAct ==
    /\ pc = "decide"
    /\ NewSignal(signal, last_signal)
    /\ IF Holding
       THEN \E sell_result \in BOOLEAN, live \in LivePrices :
                  /\ CloseCall("signal", sell_result, live)
                  /\ hist' = [hist EXCEPT !.acted = TRUE,
                                 !.last_acted = IF sell_result THEN signal ELSE @,
                                 !.sells_since_gate = @ + 1,
                                 !.exit_quote = live]
       ELSE /\ UNCHANGED << current_position, position_instrument, position_entry_price,
                            current_pnl, trade_history, broker, iter_orders >>
            /\ hist' = [hist EXCEPT !.acted = TRUE]
    /\ pc' = "open"
    /\ UNCHANGED << elapsed, iteration, last_signal, current_position_pnl, risk_result,
                    signal, summary >>
    /\ UNCHANGED << bot, strategy >>

\* line 202, condition false: no position action
SignalSkip ==
    /\ pc = "decide"
    /\ ~NewSignal(signal, last_signal)
    /\ pc' = "end_iter"
    /\ UNCHANGED << elapsed, iteration, trade_history, current_pnl, last_signal,
                    current_position, position_entry_price, position_instrument,
                    current_position_pnl, risk_result, signal, summary, broker,
                    iter_orders, hist >>
    /\ UNCHANGED << bot, strategy >>

\* lines 213-217: no quote of the underlying; sleep and continue
OpenNoUnderlying ==
    /\ pc = "open"
    /\ elapsed' = elapsed + TRADE_CHECK_INTERVAL
    /\ hist' = [hist EXCEPT !.prev_failed_buy = NoneStr, !.stopped_before = FALSE,
                            !.exit_quote = NoPrice]
    /\ pc' = "while"
    /\ UNCHANGED << iteration, trade_history, current_pnl, last_signal, current_position,
                    position_entry_price, position_instrument, current_position_pnl,
                    risk_result, signal, summary, broker, iter_orders >>
    /\ UNCHANGED << bot, strategy >>

\* lines 219-245: strike selection, the buy order and the entry price
OpenStep ==
    /\ pc = "open"
    /\ \E underlying_price \in UnderlyingPrices \ {NoPrice},
          instruments_df \in InstrumentTables :
          LET option_type_to_buy == IF signal = "buy" THEN "CE" ELSE "PE"
              option_instrument_to_trade ==
                  get_atm_option_instrument(instruments_df, underlying_price,
                                            option_type_to_buy)
          IN  IF option_instrument_to_trade # NoneStr
              THEN \E buy_result \in BOOLEAN, live \in LivePrices :
                      LET r == open_position(current_position, position_instrument,
                                             position_entry_price, option_type_to_buy,
                                             option_instrument_to_trade, buy_result, live)
                      IN  /\ (~buy_result => live = NoPrice)
                          /\ current_position' = r.current_position
                          /\ position_instrument' = r.position_instrument
                          /\ position_entry_price' = r.position_entry_price
                          /\ broker' = Fill(broker, "buy", option_instrument_to_trade,
                                            buy_result)
                          /\ iter_orders' = Append(iter_orders,
                                 Order("buy", option_instrument_to_trade, buy_result,
                                       "signal", Holding))
                          /\ hist' = [hist EXCEPT
                                 !.failed_buy = IF buy_result THEN NoneStr ELSE signal,
                                 !.last_acted = IF buy_result THEN signal ELSE @,
                                 !.exit_quote = NoPrice]
              ELSE /\ UNCHANGED << current_position, position_instrument,
                                   position_entry_price, broker, iter_orders >>
                   /\ hist' = [hist EXCEPT !.failed_buy = signal, !.exit_quote = NoPrice]
    /\ pc' = "end_iter"
    /\ UNCHANGED << elapsed, iteration, trade_history, current_pnl, last_signal,
                    current_position_pnl, risk_result, signal, summary >>
    /\ UNCHANGED << bot, strategy >>

\* lines 247-253: remember the signal and sleep
EndIteration ==
    /\ pc = "end_iter"
    /\ last_signal' = signal
    /\ elapsed' = elapsed + TRADE_CHECK_INTERVAL
    /\ hist' = [hist EXCEPT !.prev_failed_buy = hist.failed_buy,
                            !.stopped_before = FALSE]
    /\ pc' = "while"
    /\ UNCHANGED << iteration, trade_history, current_pnl, current_position,
                    position_entry_price, position_instrument, current_position_pnl,
                    risk_result, signal, summary, broker, iter_orders >>
    /\ UNCHANGED << bot, strategy >>

\* the end of the loop without the close of lines 255-260
FinalClose_skipped ==
    /\ pc = "final"
    /\ pc' = "summary"
    /\ UNCHANGED << elapsed, iteration, trade_history, current_pnl, last_signal,
                    current_position, position_entry_price, position_instrument,
                    current_position_pnl, risk_result, signal, summary, broker,
                    iter_orders, hist >>
    /\ UNCHANGED << bot, strategy >>

\* lines 255-260: close the position left open by the loop
FinalClose ==
    /\ pc = "final"
    /\ IF Holding
       THEN \E sell_result \in BOOLEAN, live \in LivePrices :
               /\ CloseCall("final", sell_result, live)
               /\ hist' = [hist EXCEPT !.sells_since_gate = @ + 1, !.exit_sells = @ + 1,
                              !.exit_quote = live]
       ELSE UNCHANGED << current_position, position_instrument, position_entry_price,
                         current_pnl, trade_history, broker, iter_orders, hist >>
    /\ pc' = "summary"
    /\ UNCHANGED << elapsed, iteration, last_signal, current_position_pnl, risk_result,
                    signal, summary >>
    /\ UNCHANGED << bot, strategy >>

RECURSIVE CountProfitable(_)
CountProfitable(th) ==
    IF th = << >> THEN 0
    ELSE (IF Head(th).pnl > 0 THEN 1 ELSE 0) + CountProfitable(Tail(th))

\* lines 262-272; win_rate is the fraction win_rate_num / win_rate_den
make_summary(th, pnl) ==
    LET profitable_trades == CountProfitable(th)
    IN  [total_trades |-> Len(th),
         profitable_trades |-> profitable_trades,
         losing_trades |-> Len(th) - profitable_trades,
         net_pnl |-> pnl,
         win_rate_num |-> IF Len(th) > 0 THEN profitable_trades * 100 ELSE 0,
         win_rate_den |-> IF Len(th) > 0 THEN Len(th) ELSE 1]

Summarise ==
    /\ pc = "summary"
    /\ summary' = make_summary(trade_history, current_pnl)
    /\ pc' = "done"
    /\ UNCHANGED << elapsed, iteration, trade_history, current_pnl, last_signal,
                    current_position, position_entry_price, position_instrument,
                    current_position_pnl, risk_result, signal, broker, iter_orders, hist >>
    /\ UNCHANGED << bot, strategy >>

Next ==
    \/ LoopEnter
    \/ LoopExit
    \/ ComputePositionPnl
    \/ RiskStep
    \/ FetchNoData
    \/ FetchAndSignal
    \/ SignalAct
    \/ SignalSkip
    \/ OpenNoUnderlying
    \/ OpenStep
    \/ EndIteration
    \/ FinalClose
    \/ Summarise

Spec == Init /\ [][Next]_vars

\* manage_trades is one sequential call: as long as a step is possible the
\* interpreter takes one (every external call returns)
LiveSpec == Init /\ [][Next]_vars /\ WF_vars(Next)

----------------------------------------------------------------------------
(* The risk gate on its own: check_risk applied to drawn arguments *)

MaxPnl == 2                        \* P&L arguments range over -MaxPnl..MaxPnl
MaxLedger == 2                     \* ledgers of 0..MaxLedger records

PnlRange == (0 - MaxPnl)..MaxPnl

\* E_risk_management.py line 46: the ledger entry of the module's example
ExampleTrade == [pnl |-> 0 - 500, id |-> 1]

Ledgers == { [i \in 1..n |-> ExampleTrade] : n \in 0..MaxLedger }

InitRisk ==
    /\ pc = "gate_call"
    /\ trade_history \in Ledgers
    /\ current_pnl \in PnlRange
    /\ current_position_pnl \in PnlRange
    /\ elapsed = 0
    /\ iteration = 0
    /\ last_signal = NoneStr
    /\ current_position = NoneStr
    /\ position_entry_price = 0
    /\ position_instrument = NoneStr
    /\ risk_result = NoRisk
    /\ signal = NoneStr
    /\ summary = NoSummary
    /\ broker = [k \in InstrumentKeys |-> 0]
    /\ iter_orders = << >>
    /\ hist = InitHist
    /\ bot = AlgoTradingBot(TRUE)
    /\ strategy = NoSignalCall

\* risk_result = check_risk(trade_history, current_pnl, current_position_pnl)
GateCall ==
    /\ pc = "gate_call"
    /\ risk_result' = check_risk(trade_history, current_pnl, current_position_pnl)
    /\ pc' = "gate_ret"
    /\ UNCHANGED << elapsed, iteration, trade_history, current_pnl, last_signal,
                    current_position, position_entry_price, position_instrument,
                    current_position_pnl, signal, summary, broker, iter_orders, hist >>
    /\ UNCHANGED << bot, strategy >>

\* the call that has just returned: its arguments and its result
ThisCall == [made |-> TRUE, trade_history |-> trade_history, current_pnl |-> current_pnl,
             current_position_pnl |-> current_position_pnl, result |-> risk_result]

\* the caller makes the next call, with the same or other arguments; the
\* call that returned may be remembered for comparison with a later one
GateAgain ==
    /\ pc = "gate_ret"
    /\ trade_history' \in Ledgers
    /\ current_pnl' \in PnlRange
    /\ current_position_pnl' \in PnlRange
    /\ hist' \in {hist, [hist EXCEPT !.gate_memo = ThisCall]}
    /\ pc' = "gate_call"
    /\ UNCHANGED << elapsed, iteration, last_signal, current_position,
                    position_entry_price, position_instrument, risk_result, signal,
                    summary, broker, iter_orders >>
    /\ UNCHANGED << bot, strategy >>

NextRisk == GateCall \/ GateAgain

RiskSpec == InitRisk /\ [][NextRisk]_vars

----------------------------------------------------------------------------
(* trading_bot.AlgoTradingBot.run_bot *)

manage_vars == << pc, elapsed, iteration, trade_history, current_pnl, last_signal,
                  current_position, position_entry_price, position_instrument,
                  current_position_pnl, risk_result, signal, summary, broker,
                  iter_orders, hist >>

InitBot ==
    /\ bot \in { AlgoTradingBot(c) : c \in BOOLEAN }
    /\ pc = "while"
    /\ elapsed = 0
    /\ iteration = 0
    /\ trade_history = << >>
    /\ current_pnl = 0
    /\ last_signal = NoneStr
    /\ current_position = NoneStr
    /\ position_entry_price = 0
    /\ position_instrument = NoneStr
    /\ current_position_pnl = 0
    /\ risk_result = NoRisk
    /\ signal = NoneStr
    /\ summary = NoSummary
    /\ broker = [k \in InstrumentKeys |-> 0]
    /\ iter_orders = << >>
    /\ hist = InitHist
    /\ strategy = NoSignalCall

\* AlpacaOrderManager.get_current_price: None when not connected
get_current_price(is_connected, quote) == IF ~is_connected THEN NoPrice ELSE quote

\* AlgoTradingBot.check_connection
check_connection(is_connected, quote) ==
    IF ~is_connected THEN FALSE
    ELSE IF get_current_price(is_connected, quote) = NoPrice THEN FALSE
    ELSE TRUE

\* run_bot starting the loop whatever check_connection answered
RunBotStart_ignores_check ==
    /\ bot.pc = "run_bot"
    /\ \E quote \in LivePrices :
          bot' = [bot EXCEPT !.connection = IF check_connection(bot.is_connected, quote)
                                            THEN "ok" ELSE "failed",
                             !.is_running = TRUE, !.pc = "loop"]
    /\ UNCHANGED << manage_vars, strategy >>

\* run_bot lines 322-331: the connection check, the early return, is_running
RunBotStart ==
    /\ bot.pc = "run_bot"
    /\ \E quote \in LivePrices :
          IF check_connection(bot.is_connected, quote)
          THEN bot' = [bot EXCEPT !.connection = "ok", !.is_running = TRUE, !.pc = "loop"]
          ELSE bot' = [bot EXCEPT !.connection = "failed", !.pc = "returned"]
    /\ UNCHANGED << manage_vars, strategy >>

\* run_bot lines 335-339: the loop test and the runtime limit
BotLoopTest ==
    /\ bot.pc = "loop"
    /\ bot' = [bot EXCEPT !.pc = IF ~bot.is_running THEN "finally"
                                 ELSE IF bot.elapsed > MaxBotRuntime THEN "finally"
                                 ELSE "cycle"]
    /\ UNCHANGED << manage_vars, strategy >>

\* should_trade without the test that the signal's bar is a new one
should_trade_any_bar(b, current_hour, current_signal_time, current_signal, positions) ==
    IF regular_hours_only /\ (current_hour < 9 \/ current_hour >= 16) THEN FALSE
    ELSE IF b.daily_trades >= max_daily_trades THEN FALSE
    ELSE IF current_signal = 0 THEN FALSE
    ELSE IF current_signal = b.last_signal THEN FALSE
    ELSE IF positions > 0 /\ positions >= max_open_positions THEN FALSE
    ELSE TRUE

\* should_trade without the test of the daily trade limit
should_trade_no_daily_limit(b, current_hour, current_signal_time, current_signal, positions) ==
    IF regular_hours_only /\ (current_hour < 9 \/ current_hour >= 16) THEN FALSE
    ELSE IF b.last_signal_time # NoTime /\ current_signal_time <= b.last_signal_time
    THEN FALSE
    ELSE IF current_signal = 0 THEN FALSE
    ELSE IF current_signal = b.last_signal THEN FALSE
    ELSE IF positions > 0 /\ positions >= max_open_positions THEN FALSE
    ELSE TRUE

\* AlgoTradingBot.should_trade
should_trade(b, current_hour, current_signal_time, current_signal, positions) ==
    IF regular_hours_only /\ (current_hour < 9 \/ current_hour >= 16) THEN FALSE
    ELSE IF b.daily_trades >= max_daily_trades THEN FALSE
    ELSE IF b.last_signal_time # NoTime /\ current_signal_time <= b.last_signal_time
    THEN FALSE
    ELSE IF current_signal = 0 THEN FALSE
    ELSE IF current_signal = b.last_signal THEN FALSE
    ELSE IF positions > 0 /\ positions >= max_open_positions THEN FALSE
    ELSE TRUE

\* AlpacaOrderManager.execute_signal on a position of current_qty lots: None
\* or the number of orders in the result, and the position it leaves.
\* current_price = NoPrice is the argument left out; close_order and order
\* tell whether close_position and place_market_order return an order;
\* qty_positive whether calculate_position_size is above zero
execute_signal(sig, current_price, quote, is_connected, current_qty, close_order, qty_positive, order, shorting_enabled) ==
    LET price == IF current_price = NoPrice THEN get_current_price(is_connected, quote)
                 ELSE current_price
        closed == /\ close_order
                  /\ IF sig = 1 THEN current_qty < 0 ELSE current_qty > 0
        after_close == IF closed THEN 0 ELSE current_qty
        opened == /\ sig = 1 \/ shorting_enabled
                  /\ qty_positive
                  /\ order
    IN  IF sig = 0 THEN [orders |-> NoResult, position |-> current_qty]
        ELSE IF price = NoPrice THEN [orders |-> NoResult, position |-> current_qty]
        ELSE [orders |-> (IF closed THEN 1 ELSE 0) + (IF opened THEN 1 ELSE 0),
              position |-> IF opened THEN after_close + sig ELSE after_close]

\* the executions the account and the broker allow for a signal
Executions(b, sig) ==
    { execute_signal(sig, current_price, NoPrice, b.is_connected, b.position,
                     close_order, qty_positive, order, shorting_enabled) :
        current_price \in Prices,
        close_order \in BOOLEAN, qty_positive \in BOOLEAN, order \in BOOLEAN,
        shorting_enabled \in BOOLEAN }

\* execute_trade remembering the signal whether or not an order was placed
execute_trade_remembers_attempt(b, timestamp, sig, execution) ==
    LET execution_result == execution.orders
        called == [b EXCEPT !.position = execution.position,
                            !.last_signal = sig,
                            !.last_signal_time = timestamp,
                            !.attempt = [called |-> TRUE, signal |-> sig,
                                         timestamp |-> timestamp,
                                         orders |-> execution_result]]
    IN  IF execution_result # NoResult /\ execution_result > 0
        THEN [called EXCEPT !.daily_trades = @ + 1,
                            !.trade_history = Append(@, [timestamp |-> timestamp,
                                                         signal |-> sig,
                                                         orders |-> execution_result]),
                            !.orders = @ + execution_result]
        ELSE called

\* AlgoTradingBot.execute_trade; execution is the outcome of
\* order_manager.execute_signal
execute_trade(b, timestamp, sig, execution) ==
    LET execution_result == execution.orders
        called == [b EXCEPT !.position = execution.position,
                            !.attempt = [called |-> TRUE, signal |-> sig,
                                         timestamp |-> timestamp,
                                         orders |-> execution_result]]
    IN  IF execution_result # NoResult /\ execution_result > 0
        THEN [called EXCEPT !.last_signal = sig,
                            !.last_signal_time = timestamp,
                            !.daily_trades = @ + 1,
                            !.trade_history = Append(@, [timestamp |-> timestamp,
                                                         signal |-> sig,
                                                         orders |-> execution_result]),
                            !.orders = @ + execution_result]
        ELSE called

\* run_bot line 342 with run_single_cycle: no signal data, no trade, or a trade
RunSingleCycle ==
    /\ bot.pc = "cycle"
    /\ \/ bot' = [bot EXCEPT !.cycles = @ + 1, !.pc = "sleep"]
       \/ \E current_hour \in BotHours, timestamp \in BotTimes, sig \in BotSignals,
             positions \in PositionCounts :
             LET b == [bot EXCEPT !.cycles = @ + 1, !.pc = "sleep"]
             IN  IF should_trade(bot, current_hour, timestamp, sig, positions)
                 THEN \E execution \in Executions(bot, sig) :
                         bot' = execute_trade(b, timestamp, sig, execution)
                 ELSE bot' = b
    /\ UNCHANGED << manage_vars, strategy >>

\* run_bot lines 344-353: the status display and the sleep
BotSleep ==
    /\ bot.pc = "sleep"
    /\ bot' = [bot EXCEPT !.elapsed = @ + 1, !.pc = "loop", !.attempt = NoAttempt]
    /\ UNCHANGED << manage_vars, strategy >>

\* run_bot lines 355-358: KeyboardInterrupt or another exception in the loop
BotInterrupt ==
    /\ bot.pc \in {"loop", "cycle", "sleep"}
    /\ bot' = [bot EXCEPT !.pc = "finally"]
    /\ UNCHANGED << manage_vars, strategy >>

\* run_bot lines 359-361 with shutdown
BotShutdown ==
    /\ bot.pc = "finally"
    /\ bot' = [bot EXCEPT !.is_running = FALSE, !.shutdown_done = TRUE, !.pc = "returned"]
    /\ UNCHANGED << manage_vars, strategy >>

NextBot ==
    \/ RunBotStart
    \/ BotLoopTest
    \/ RunSingleCycle
    \/ BotSleep
    \/ BotInterrupt
    \/ BotShutdown

BotSpec == InitBot /\ [][NextBot]_vars

----------------------------------------------------------------------------
(* The signal policy on its own: process_market_data applied to drawn frames *)

InitSig ==
    /\ strategy \in { [pc |-> "signal_call", frame |-> f, signal |-> NoneStr,
                  memo |-> NoSignalMemo] : f \in Frames }
    /\ bot = AlgoTradingBot(TRUE)
    /\ pc = "while"
    /\ elapsed = 0
    /\ iteration = 0
    /\ trade_history = << >>
    /\ current_pnl = 0
    /\ last_signal = NoneStr
    /\ current_position = NoneStr
    /\ position_entry_price = 0
    /\ position_instrument = NoneStr
    /\ current_position_pnl = 0
    /\ risk_result = NoRisk
    /\ signal = NoneStr
    /\ summary = NoSummary
    /\ broker = [k \in InstrumentKeys |-> 0]
    /\ iter_orders = << >>
    /\ hist = InitHist

\* signal = process_market_data(data); the frame keeps the columns added to it
SignalCall ==
    /\ strategy.pc = "signal_call"
    /\ strategy' = [strategy EXCEPT !.pc = "signal_ret",
                                    !.signal = process_market_data(strategy.frame),
                                    !.frame = frame_after(strategy.frame)]
    /\ UNCHANGED << manage_vars, bot >>

\* the call that has just returned: its frame and its result
ThisSignalCall == [made |-> TRUE, frame |-> strategy.frame, signal |-> strategy.signal]

\* the caller makes the next call: with the same frame object, with a fresh
\* frame of the same bars, with the frame of the remembered call or with a
\* frame of another series; the call that returned may be remembered
SignalAgain ==
    /\ strategy.pc = "signal_ret"
    /\ \E f \in {strategy.frame, FreshFrame(strategy.frame), MirrorFrame(strategy.frame)}
                  \cup (IF strategy.memo.made THEN {strategy.memo.frame} ELSE {}),
          m \in {strategy.memo, ThisSignalCall} :
            strategy' = [strategy EXCEPT !.pc = "signal_call", !.frame = f, !.memo = m]
    /\ UNCHANGED << manage_vars, bot >>

NextSig == SignalCall \/ SignalAgain

SigSpec == InitSig /\ [][NextSig]_vars

----------------------------------------------------------------------------
(* indicators.superTrend.supertrend                                          *)
(* A candle is a record of high, low and close. With an integer multiplier   *)
(* every column is a multiple of 1/(2 * period), so the columns are kept     *)
(* times 2 * period. A cell is a number or NaN; a comparison with NaN is     *)
(* False, as it is for the float columns of the frame.                       *)

MaxCandles == 4                    \* frames of 0..MaxCandles candles

Periods == {1, 2}                  \* the period argument (default 10)
Multipliers == {1, 3}              \* the multiplier argument (default 3.0)

NaN == [nan |-> TRUE, v |-> 0]
Num(v) == [nan |-> FALSE, v |-> v]

\* <, >, <= and >= on cells
lt(a, b) == ~a.nan /\ ~b.nan /\ a.v < b.v
gt(a, b) == lt(b, a)
le(a, b) == ~a.nan /\ ~b.nan /\ a.v <= b.v
ge(a, b) == le(b, a)

Max2(a, b) == IF a >= b THEN a ELSE b

\* lines 19-23: max(axis=1) skips the NaN cells of the first row
true_range(df, i) ==
    LET tr1 == df[i].high - df[i].low
    IN  IF i = 1 THEN tr1
        ELSE Max2(tr1, Max2(Abs(df[i].high - df[i - 1].close),
                            Abs(df[i].low - df[i - 1].close)))

RECURSIVE sum_true_range(_, _, _)
sum_true_range(df, from, to) ==
    IF from > to THEN 0 ELSE true_range(df, from) + sum_true_range(df, from + 1, to)

\* line 26: rolling(window=period).mean(), times 2 * period
atr(df, period, i) ==
    IF i < period THEN NaN ELSE Num(2 * sum_true_range(df, i - period + 1, i))

\* lines 29-31, times 2 * period
hl_avg(df, period, i) == period * (df[i].high + df[i].low)

upper_band(df, period, multiplier, i) ==
    IF atr(df, period, i).nan THEN NaN
    ELSE Num(hl_avg(df, period, i) + multiplier * atr(df, period, i).v)

lower_band(df, period, multiplier, i) ==
    IF atr(df, period, i).nan THEN NaN
    ELSE Num(hl_avg(df, period, i) - multiplier * atr(df, period, i).v)

\* the close of row i, times 2 * period
close_cell(df, period, i) == Num(2 * period * df[i].close)

\* lines 34-37: the row before the loop has touched it
first_row(df, period, multiplier) ==
    [supertrend_upper |-> upper_band(df, period, multiplier, 1),
     supertrend_lower |-> lower_band(df, period, multiplier, 1),
     supertrend |-> Num(0), trend |-> 1]

\* lines 41-65: one pass of the loop, from the row before
next_row(df, period, multiplier, i, prev) ==
    LET upper == upper_band(df, period, multiplier, i)
        lower == lower_band(df, period, multiplier, i)
        prev_close == close_cell(df, period, i - 1)
        close == close_cell(df, period, i)
        supertrend_upper == IF lt(upper, prev.supertrend_upper)
                               \/ gt(prev_close, prev.supertrend_upper)
                            THEN upper ELSE prev.supertrend_upper
        supertrend_lower == IF gt(lower, prev.supertrend_lower)
                               \/ lt(prev_close, prev.supertrend_lower)
                            THEN lower ELSE prev.supertrend_lower
        trend == IF le(close, supertrend_lower) THEN 0 - 1
                 ELSE IF ge(close, supertrend_upper) THEN 1
                 ELSE prev.trend
    IN  [supertrend_upper |-> supertrend_upper,
         supertrend_lower |-> supertrend_lower,
         supertrend |-> IF trend = 1 THEN supertrend_lower ELSE supertrend_upper,
         trend |-> trend]

\* line 40: for i in range(1, len(df))
RECURSIVE supertrend_rows(_, _, _, _, _)
supertrend_rows(df, period, multiplier, i, rows) ==
    IF i > Len(df) THEN rows
    ELSE supertrend_rows(df, period, multiplier, i + 1,
                         Append(rows, next_row(df, period, multiplier, i, rows[i - 1])))

\* trend.shift(1): NaN in the first row
shifted_trend(rows, i) == IF i = 1 THEN NaN ELSE Num(rows[i - 1].trend)

\* the signal column marking every row of an uptrend as a buy
signal_column_no_shift(rows, i) ==
    LET buy == IF rows[i].trend = 1 THEN 1 ELSE 0
    IN  IF rows[i].trend = 0 - 1 /\ shifted_trend(rows, i) = Num(1) THEN 0 - 1 ELSE buy

\* lines 68-70: the two np.where passes
signal_column(rows, i) ==
    LET buy == IF rows[i].trend = 1 /\ shifted_trend(rows, i) = Num(0 - 1) THEN 1 ELSE 0
    IN  IF rows[i].trend = 0 - 1 /\ shifted_trend(rows, i) = Num(1) THEN 0 - 1 ELSE buy

\* supertrend(df, period, multiplier): the rows of the returned frame
supertrend(df, period, multiplier) ==
    IF Len(df) = 0 THEN << >>
    ELSE LET rows == supertrend_rows(df, period, multiplier, 2,
                                     << first_row(df, period, multiplier) >>)
         IN  [i \in 1..Len(df) |->
                 [close |-> df[i].close, supertrend |-> rows[i].supertrend,
                  trend |-> rows[i].trend, signal |-> signal_column(rows, i),
                  atr |-> atr(df, period, i),
                  supertrend_upper |-> rows[i].supertrend_upper,
                  supertrend_lower |-> rows[i].supertrend_lower]]

CandlePrices == {1, 2}               \* high, low and close values
Candles ==
    { c \in [high : CandlePrices, low : CandlePrices, close : CandlePrices] :
        c.low <= c.close /\ c.close <= c.high }
CandleFrames == UNION { [1..n -> Candles] : n \in 0..MaxCandles }

InitST ==
    /\ strategy \in { [pc |-> "supertrend_call", df |-> df, period |-> period,
                       multiplier |-> multiplier, result |-> << >>] :
                       df \in CandleFrames, period \in Periods,
                       multiplier \in Multipliers }
    /\ bot = AlgoTradingBot(TRUE)
    /\ pc = "while"
    /\ elapsed = 0
    /\ iteration = 0
    /\ trade_history = << >>
    /\ current_pnl = 0
    /\ last_signal = NoneStr
    /\ current_position = NoneStr
    /\ position_entry_price = 0
    /\ position_instrument = NoneStr
    /\ current_position_pnl = 0
    /\ risk_result = NoRisk
    /\ signal = NoneStr
    /\ summary = NoSummary
    /\ broker = [k \in InstrumentKeys |-> 0]
    /\ iter_orders = << >>
    /\ hist = InitHist

\* st_df = supertrend(candles_df, period, multiplier)
SupertrendCall ==
    /\ strategy.pc = "supertrend_call"
    /\ strategy' = [strategy EXCEPT !.pc = "supertrend_ret",
                        !.result = supertrend(strategy.df, strategy.period,
                                              strategy.multiplier)]
    /\ UNCHANGED << manage_vars, bot >>

NextST == SupertrendCall

STSpec == InitST /\ [][NextST]_vars

----------------------------------------------------------------------------
(* W_trade_manager.get_atm_option_instrument on its own: the call of         *)
(* open_position, with the table of get_trading_instrument(), the price of   *)
(* the underlying and the option type drawn. hist holds the arguments,       *)
(* position_instrument receives the result.                                  *)

MaxRows == 3                       \* instrument tables of 0..MaxRows rows

CE100 == [instrument_key |-> "CE100", instrument_type |-> "CE", strike |-> 100]
CE200 == [instrument_key |-> "CE200", instrument_type |-> "CE", strike |-> 200]
PE200 == [instrument_key |-> "PE200", instrument_type |-> "PE", strike |-> 200]
Contracts == {CE100, CE150, CE200, PE100, PE200}
ContractTables == UNION { [1..n -> Contracts] : n \in 0..MaxRows }
AtmPrices == {100, 120, 125, 140, 160, 175}
OptionTypes == {"CE", "PE"}

InitAtm ==
    /\ pc = "atm_call"
    /\ hist \in [instruments_df : ContractTables, underlying_price : AtmPrices,
                 option_type : OptionTypes]
    /\ position_instrument = NoneStr
    /\ elapsed = 0
    /\ iteration = 0
    /\ trade_history = << >>
    /\ current_pnl = 0
    /\ last_signal = NoneStr
    /\ current_position = NoneStr
    /\ position_entry_price = 0
    /\ current_position_pnl = 0
    /\ risk_result = NoRisk
    /\ signal = NoneStr
    /\ summary = NoSummary
    /\ broker = [k \in InstrumentKeys |-> 0]
    /\ iter_orders = << >>
    /\ bot = AlgoTradingBot(TRUE)
    /\ strategy = NoSignalCall

\* option_instrument = get_atm_option_instrument(underlying_price, option_type)
AtmCall ==
    /\ pc = "atm_call"
    /\ position_instrument' = get_atm_option_instrument(hist.instruments_df,
                                  hist.underlying_price, hist.option_type)
    /\ pc' = "atm_ret"
    /\ UNCHANGED << elapsed, iteration, trade_history, current_pnl, last_signal,
                    current_position, position_entry_price, current_position_pnl,
                    risk_result, signal, summary, broker, iter_orders, hist,
                    bot, strategy >>

NextAtm == AtmCall

AtmSpec == InitAtm /\ [][NextAtm]_vars

----------------------------------------------------------------------------
(* G_get_expiry.get_expiry_weekly_current_week                               *)
(* A datetime is a day, counted as date.toordinal() counts it, and an hour   *)
(* of that day; a date is the day alone. hist holds the clock the call reads *)
(* and the date it returns.                                                  *)

MaxDays == 27                      \* the call is made on one of MaxDays + 1 days
FirstDay == 739404                 \* date(2025, 6, 2).toordinal(), a Monday
ClockHours == {0, 12, 23}
NoDate == 0

\* datetime.weekday(): Monday is 0, Sunday is 6; day 1 is a Monday
weekday(dt) == (dt.day - 1) % 7

\* datetime + timedelta(days=n)
plus_days(dt, n) == [dt EXCEPT !.day = @ + n]

\* datetime.date()
date_of(dt) == dt.day

\* the function with Thursday itself sent to the week after
get_expiry_after_today(today) ==
    LET days_until_thursday == ((3 - weekday(today) + 6) % 7) + 1
        expiry_date == plus_days(today, days_until_thursday)
    IN  date_of(expiry_date)

\* get_expiry_weekly_current_week, today being datetime.now()
get_expiry_weekly_current_week(today) ==
    LET days_until_thursday == (3 - weekday(today) + 7) % 7
        expiry_date == plus_days(today, days_until_thursday)
    IN  date_of(expiry_date)

InitExpiry ==
    /\ pc = "expiry_call"
    /\ hist \in [today : [day : FirstDay..(FirstDay + MaxDays), hour : ClockHours],
                 expiry : {NoDate}]
    /\ position_instrument = NoneStr
    /\ elapsed = 0
    /\ iteration = 0
    /\ trade_history = << >>
    /\ current_pnl = 0
    /\ last_signal = NoneStr
    /\ current_position = NoneStr
    /\ position_entry_price = 0
    /\ current_position_pnl = 0
    /\ risk_result = NoRisk
    /\ signal = NoneStr
    /\ summary = NoSummary
    /\ broker = [k \in InstrumentKeys |-> 0]
    /\ iter_orders = << >>
    /\ bot = AlgoTradingBot(TRUE)
    /\ strategy = NoSignalCall

\* expiry = get_expiry_weekly_current_week()
ExpiryCall ==
    /\ pc = "expiry_call"
    /\ hist' = [hist EXCEPT !.expiry = get_expiry_weekly_current_week(hist.today)]
    /\ pc' = "expiry_ret"
    /\ UNCHANGED << elapsed, iteration, trade_history, current_pnl, last_signal,
                    current_position, position_entry_price, position_instrument,
                    current_position_pnl, risk_result, signal, summary, broker,
                    iter_orders, bot, strategy >>

NextExpiry == ExpiryCall

ExpirySpec == InitExpiry /\ [][NextExpiry]_vars

----------------------------------------------------------------------------
(* G_trade_manager.manage_trades: the loop trading the configured instrument *)
(* itself. It shares trade_history, current_pnl, last_signal, iteration,     *)
(* elapsed, signal, risk_result, iter_orders and summary with the model of   *)
(* W_trade_manager; its positions in the code are the pc values "g_...".     *)
(* As for W_trade_manager the model follows the call sites: market_data and  *)
(* generate_signal yield a signal, an order call yields a trade with a pnl   *)
(* or None.                                                                  *)

\* the pnl a returned trade may carry (trade.get('pnl', 0))
TradePnls == {0 - 1, 0, 1}

\* the truth value Python gives a dict: False for the empty dict only
dict_truth(d) == DOMAIN d # {}

RECURSIVE g_sum_pnl(_)
g_sum_pnl(th) == IF th = << >> THEN 0 ELSE Head(th).pnl + g_sum_pnl(Tail(th))

RECURSIVE g_count_losing(_)
g_count_losing(th) ==
    IF th = << >> THEN 0
    ELSE (IF Head(th).pnl < 0 THEN 1 ELSE 0) + g_count_losing(Tail(th))

\* lines 106-118; win_rate is the fraction win_rate_num / win_rate_den
g_make_summary(th) ==
    [total_trades |-> Len(th),
     profitable_trades |-> CountProfitable(th),
     losing_trades |-> g_count_losing(th),
     net_pnl |-> g_sum_pnl(th),
     win_rate_num |-> IF Len(th) > 0 THEN CountProfitable(th) * 100 ELSE 0,
     win_rate_den |-> IF Len(th) > 0 THEN Len(th) ELSE 1]

\* lines 36-40
InitG ==
    /\ pc = "g_while"
    /\ elapsed = 0
    /\ iteration = 0
    /\ trade_history = << >>
    /\ current_pnl = 0
    /\ last_signal = NoneStr
    /\ current_position = NoneStr
    /\ position_entry_price = 0
    /\ position_instrument = NoneStr
    /\ current_position_pnl = 0
    /\ risk_result = NoRisk
    /\ signal = NoneStr
    /\ summary = NoSummary
    /\ broker = [k \in InstrumentKeys |-> 0]
    /\ iter_orders = << >>
    /\ hist = InitHist
    /\ bot = AlgoTradingBot(TRUE)
    /\ strategy = NoSignalCall

\* line 48: check_risk(trade_history, current_pnl) is called and the dict it
\* returns is taken as the condition; lines 49-53 when the loop is entered
G_LoopTest ==
    /\ pc = "g_while"
    /\ risk_result' = check_risk(trade_history, current_pnl, 0)
    /\ IF dict_truth(risk_result') /\ elapsed < MAX_RUNTIME
       THEN /\ iteration' = iteration + 1
            /\ iter_orders' = << >>
            /\ pc' = "g_signal"
       ELSE /\ pc' = "g_summary"
            /\ UNCHANGED << iteration, iter_orders >>
    /\ UNCHANGED << elapsed, trade_history, current_pnl, last_signal, current_position,
                    position_entry_price, position_instrument, current_position_pnl,
                    signal, summary, broker, hist >>
    /\ UNCHANGED << bot, strategy >>

\* lines 55-66: the bars and their signal
G_Signal ==
    /\ pc = "g_signal"
    /\ signal' \in Signals
    /\ pc' = "g_act"
    /\ UNCHANGED << elapsed, iteration, trade_history, current_pnl, last_signal,
                    current_position, position_entry_price, position_instrument,
                    current_position_pnl, risk_result, summary, broker, iter_orders,
                    hist >>
    /\ UNCHANGED << bot, strategy >>

\* lines 68-100: the order of a new signal, the ledger and the sleep
G_Act ==
    /\ pc = "g_act"
    /\ IF signal # "hold" /\ signal # last_signal
       THEN \E filled \in BOOLEAN, pnl \in TradePnls :
               /\ (~filled => pnl = 0)
               /\ iter_orders' = Append(iter_orders,
                                     Order(signal, "INSTRUMENT_KEY", filled, "signal", FALSE))
               /\ last_signal' = signal
               /\ trade_history' = IF filled
                                   THEN Append(trade_history, [pnl |-> pnl, side |-> signal])
                                   ELSE trade_history
               /\ current_pnl' = IF filled THEN current_pnl + pnl ELSE current_pnl
       ELSE UNCHANGED << iter_orders, last_signal, trade_history, current_pnl >>
    /\ elapsed' = elapsed + TRADE_CHECK_INTERVAL
    /\ pc' = "g_while"
    /\ UNCHANGED << iteration, current_position, position_entry_price,
                    position_instrument, current_position_pnl, risk_result, signal,
                    summary, broker, hist >>
    /\ UNCHANGED << bot, strategy >>

\* lines 102-118
G_Summarise ==
    /\ pc = "g_summary"
    /\ summary' = g_make_summary(trade_history)
    /\ pc' = "g_done"
    /\ UNCHANGED << elapsed, iteration, trade_history, current_pnl, last_signal,
                    current_position, position_entry_price, position_instrument,
                    current_position_pnl, risk_result, signal, broker, iter_orders, hist >>
    /\ UNCHANGED << bot, strategy >>

NextG == G_LoopTest \/ G_Signal \/ G_Act \/ G_Summarise

GSpec == InitG /\ [][NextG]_vars

----------------------------------------------------------------------------
(* Properties *)

Stop(reason) == [continue_trading |-> FALSE, reason |-> reason]

\* C1: check_risk answers by the first of its four conditions that holds, in
\* the order MAX_DAILY_LOSS, MAX_TRADES_PER_DAY, STOP_LOSS, TAKE_PROFIT, and
\* continues with reason None when none holds; under an account-level
\* condition the reason is never STOP_LOSS or TAKE_PROFIT.
C1_RiskOrder ==
    pc = "gate_ret" =>
        LET c1 == current_pnl <= -MAX_DAILY_LOSS
            c2 == Len(trade_history) >= MAX_TRADES_PER_DAY
            c3 == current_position_pnl <= -STOP_LOSS
            c4 == current_position_pnl >= TAKE_PROFIT
        IN  /\ c1 => risk_result = Stop("MAX_DAILY_LOSS")
            /\ (~c1 /\ c2) => risk_result = Stop("MAX_TRADES_PER_DAY")
            /\ (~c1 /\ ~c2 /\ c3) => risk_result = Stop("STOP_LOSS")
            /\ (~c1 /\ ~c2 /\ ~c3 /\ c4) => risk_result = Stop("TAKE_PROFIT")
            /\ (~c1 /\ ~c2 /\ ~c3 /\ ~c4) =>
                   risk_result = [continue_trading |-> TRUE, reason |-> NoneStr]
            /\ (c1 \/ c2) => risk_result.reason \notin {"STOP_LOSS", "TAKE_PROFIT"}

\* the gate has answered a call in which the daily-loss cap and the stop
\* loss of the open position are breached together
C1_Witness ==
    /\ pc = "gate_ret"
    /\ current_pnl <= -MAX_DAILY_LOSS
    /\ current_position_pnl <= -STOP_LOSS
    /\ risk_result.reason = "MAX_DAILY_LOSS"

\* C2: the broker never holds more than one position bought and not yet sold
C2_AtMostOneOpen == OpenAtBroker <= 1

\* C3: the tracked position is Flat exactly when the entry price is 0
C3_FlatIffNoEntryPrice == Flat <=> (position_entry_price = 0)

LastOrder(orders) == orders[Len(orders)]

\* this step issued one order, of the given side and outcome
Issued(side, ok) ==
    /\ Len(iter_orders') = Len(iter_orders) + 1
    /\ LastOrder(iter_orders').side = side
    /\ LastOrder(iter_orders').ok = ok

\* C4: a rejected sell leaves the position, the ledger and the realized P&L
\* as they were
C4_FailedSellKeepsHolding ==
    [][ Issued("sell", FALSE) =>
            /\ current_position' = current_position
            /\ position_instrument' = position_instrument
            /\ position_entry_price' = position_entry_price
            /\ trade_history' = trade_history
            /\ current_pnl' = current_pnl ]_vars

\* C5: when manage_trades has returned, the broker holds no position
C5_NoOpenPositionAtExit == pc = "done" => OpenAtBroker = 0

\* C6 as claimed: a loop that ends Holding is followed by exactly one sell
\* between the last gate evaluation and the summary, and ends Flat; a loop
\* that ends Flat is followed by no sell. Stated of the sessions in which
\* every sell was filled (the broker's book is empty at the end), so that
\* the rejected sells of C4 play no part in a violation.
C6_OneCloseSinceLastGate ==
    (pc = "done" /\ OpenAtBroker = 0) =>
        /\ hist.exit_state = "Holding" => (hist.sells_since_gate = 1 /\ Flat)
        /\ hist.exit_state = "Flat" => hist.exit_sells = 0

\* C6 amended: a loop that ends Holding is followed by exactly one sell
\* issued by the step that ends it or after it (the risk step that breaks, or
\* the close after the loop), the tracked position is Flat at the summary;
\* a loop that ends Flat is followed by no sell
C6_ForcedFlatten ==
    pc = "done" =>
        /\ hist.exit_state = "Holding" => (hist.exit_sells = 1 /\ Flat)
        /\ hist.exit_state = "Flat" => (hist.exit_sells = 0 /\ Flat)

\* the session has returned after the runtime cap ended the loop Holding and
\* the close after the loop was issued
C6_Witness ==
    /\ pc = "done"
    /\ hist.exit_state = "Holding"
    /\ Len(iter_orders) > 0
    /\ LastOrder(iter_orders).phase = "final"

SignalOrders == { i \in 1..Len(iter_orders) : iter_orders[i].phase = "signal" }

\* C7: an iteration whose signal is hold, or the signal last acted on, issues
\* no order in its signal step
C7_SignalIdempotence == hist.repeat => SignalOrders = {}

\* C8: when the buy of the previous iteration failed and this iteration has
\* the same signal with the gate permitting, the open is attempted again
C8_FailedBuyRetried ==
    ( /\ pc = "end_iter"
      /\ hist.prev_failed_buy # NoneStr
      /\ signal = hist.prev_failed_buy
      /\ risk_result.continue_trading ) => hist.acted

\* C9: a rejected buy leaves the position Flat with entry price 0, the ledger
\* and the realized P&L unchanged, and the loop goes on to its sleep
C9_FailedBuyStaysFlat ==
    [][ Issued("buy", FALSE) =>
            /\ current_position' = NoneStr
            /\ position_instrument' = NoneStr
            /\ position_entry_price' = 0
            /\ trade_history' = trade_history
            /\ current_pnl' = current_pnl
            /\ pc' = "end_iter" ]_vars

\* a buy that followed a filled close in the same iteration was rejected
C9_Witness ==
    /\ pc = "end_iter"
    /\ Len(iter_orders) >= 2
    /\ LastOrder(iter_orders).side = "buy"
    /\ ~LastOrder(iter_orders).ok
    /\ Len(trade_history) > 0
    /\ Flat

\* C10: every step leaves the ledger as it was or appends to it
C10_LedgerAppendOnly ==
    [][ /\ Len(trade_history') >= Len(trade_history)
        /\ SubSeq(trade_history', 1, Len(trade_history)) = trade_history ]_vars

\* the session has returned with two records of different P&L in the ledger
C10_Witness ==
    /\ pc = "done"
    /\ Len(trade_history) >= 2
    /\ trade_history[1].pnl # trade_history[2].pnl

\* the arguments of the pending call are those of the remembered call
SameArguments ==
    /\ hist.gate_memo.made
    /\ hist.gate_memo.trade_history = trade_history
    /\ hist.gate_memo.current_pnl = current_pnl
    /\ hist.gate_memo.current_position_pnl = current_position_pnl

IssuedInLoop ==
    /\ Len(iter_orders') = Len(iter_orders) + 1
    /\ LastOrder(iter_orders').phase # "final"

\* the records appended to the ledger since the last sleep
ClosedThisIteration == { i \in 1..Len(trade_history) : trade_history[i].entry_time = elapsed }

FilledSells == { i \in 1..Len(iter_orders) : iter_orders[i].side = "sell" /\ iter_orders[i].ok }

\* C12: an order issued in an iteration follows the evaluation of check_risk
\* of that iteration; a buy is issued by the open step only, when every close
\* of the iteration has returned: all earlier orders of the iteration are
\* sells, each filled one has its record in the ledger, and the tracked
\* position is Flat
C12_GateThenCloseThenOpen ==
    [][ /\ IssuedInLoop => hist'.gate_evaluated
        /\ (\E ok \in BOOLEAN : Issued("buy", ok)) =>
               /\ pc = "open"
               /\ hist.gate_evaluated
               /\ Flat
               /\ \A i \in 1..Len(iter_orders) : iter_orders[i].side = "sell"
               /\ Cardinality(ClosedThisIteration) = Cardinality(FilledSells) ]_vars

\* an iteration has issued a filled sell at a position-level stop and then a
\* filled buy in its signal step
C12_Witness ==
    /\ pc = "end_iter"
    /\ Len(iter_orders) = 2
    /\ iter_orders[1] = Order("sell", iter_orders[1].instrument, TRUE, "risk", TRUE)
    /\ iter_orders[2].side = "buy"
    /\ iter_orders[2].ok
    /\ Holding

\* C13: a buy issued in an iteration whose signal step began Holding comes
\* after a sell, issued by the same signal step, of the instrument that was
\* held, and is issued when close_position has reset the tracked position
C13_NoDirectFlip ==
    \A i \in 1..Len(iter_orders) :
        (iter_orders[i].side = "buy" /\ hist.sig_instrument # NoneStr) =>
            /\ \E j \in 1..(i - 1) :
                  /\ iter_orders[j].side = "sell"
                  /\ iter_orders[j].phase = "signal"
                  /\ iter_orders[j].instrument = hist.sig_instrument
                  /\ iter_orders[j].held
            /\ ~iter_orders[i].held

\* a signal step that began Holding PE100 has sold it and then bought CE150
C13_Witness ==
    /\ pc = "end_iter"
    /\ hist.sig_instrument = "PE100"
    /\ Len(iter_orders) = 2
    /\ iter_orders[1] = Order("sell", "PE100", TRUE, "signal", TRUE)
    /\ iter_orders[2] = Order("buy", "CE150", TRUE, "signal", FALSE)
    /\ position_instrument = "CE150"

\* C14: once check_risk has reported MAX_DAILY_LOSS or MAX_TRADES_PER_DAY the
\* loop has ended: the session is at the close after the loop, the summary or
\* the return, never again at the bar fetch, the signal or the open; the
\* iteration issued no buy; a position held at that gate evaluation was sold
\* by the risk step as the only order of the iteration, and the tracked
\* position is Flat
C14_AccountStopTerminal ==
    risk_result.reason \in {"MAX_DAILY_LOSS", "MAX_TRADES_PER_DAY"} =>
        /\ pc \in {"final", "summary", "done"}
        /\ Flat
        /\ hist.exit_state = "Holding" =>
               /\ Len(iter_orders) = 1
               /\ iter_orders[1].side = "sell"
               /\ iter_orders[1].phase = "risk"
               /\ iter_orders[1].held
        /\ hist.exit_state # "Holding" => iter_orders = << >>

\* the session has returned after the daily-loss cap was reported while
\* Holding and the position was sold by the risk step
C14_Witness ==
    /\ pc = "done"
    /\ risk_result.reason = "MAX_DAILY_LOSS"
    /\ hist.exit_state = "Holding"
    /\ Len(iter_orders) = 1
    /\ iter_orders[1].ok

\* C15: the risk step in which check_risk reports STOP_LOSS or TAKE_PROFIT
\* sells the held position, leaves the tracked position Flat and goes on to
\* the bar fetch and the signal evaluation of the same iteration; it does not
\* end the loop
C15_PositionStopNotTerminal ==
    [][ (pc = "risk" /\ risk_result'.reason \in {"STOP_LOSS", "TAKE_PROFIT"}) =>
            /\ Holding
            /\ \E ok \in BOOLEAN : Issued("sell", ok)
            /\ LastOrder(iter_orders').phase = "risk"
            /\ LastOrder(iter_orders').instrument = position_instrument
            /\ current_position' = NoneStr
            /\ pc' = "fetch" ]_vars

\* in the iteration after one whose gate reported a position-level stop, the
\* gate has let trading continue and the signal step has bought
C15_Witness ==
    /\ pc = "end_iter"
    /\ hist.stopped_before
    /\ risk_result.continue_trading
    /\ Len(iter_orders) = 1
    /\ iter_orders[1].side = "buy"
    /\ iter_orders[1].ok
    /\ Holding

\* the risk step of an iteration that holds a position and got no quote of it
NoQuoteRiskStep == pc = "risk" /\ Holding /\ hist.no_quote

C17_NoBarsSkipsSignal ==
    [][ (pc = "fetch" /\ pc' # "decide") =>
            /\ pc' = "while"
            /\ elapsed' = elapsed + TRADE_CHECK_INTERVAL
            /\ signal' = signal
            /\ last_signal' = last_signal
            /\ current_position' = current_position
            /\ position_instrument' = position_instrument
            /\ position_entry_price' = position_entry_price
            /\ trade_history' = trade_history
            /\ current_pnl' = current_pnl
            /\ broker' = broker
            /\ iter_orders' = iter_orders ]_vars

\* an iteration that held a position has passed the gate, found no bars and
\* slept, issuing no order and still Holding, after a buy signal was acted on
C17_Witness ==
    /\ pc = "while"
    /\ Holding
    /\ hist.gate_evaluated
    /\ hist.sig_instrument = NoneStr
    /\ iter_orders = << >>
    /\ last_signal = "buy"

RECURSIVE SumPnl(_)
SumPnl(th) == IF th = << >> THEN 0 ELSE Head(th).pnl + SumPnl(Tail(th))

Profitable(th) == { i \in 1..Len(th) : th[i].pnl > 0 }

\* C18: in every state current_pnl is the sum of pnl over the ledger; the
\* returned summary has net_pnl equal to that sum, total_trades equal to the
\* length of the ledger, profitable_trades equal to the number of records
\* with pnl > 0, and a win rate of 0 for an empty ledger and of
\* 100 * profitable_trades / total_trades otherwise
C18_SummaryMatchesLedger ==
    /\ current_pnl = SumPnl(trade_history)
    /\ pc = "done" =>
          /\ summary.net_pnl = SumPnl(trade_history)
          /\ summary.total_trades = Len(trade_history)
          /\ summary.profitable_trades = Cardinality(Profitable(trade_history))
          /\ Len(trade_history) = 0 => summary.win_rate_num = 0
          /\ Len(trade_history) > 0 =>
                summary.win_rate_num * Len(trade_history) =
                    100 * Cardinality(Profitable(trade_history)) * summary.win_rate_den
          /\ summary.win_rate_den > 0

\* the session has returned a summary of two trades, one of them profitable,
\* with a net P&L of 1
C18_Witness ==
    /\ pc = "done"
    /\ summary.total_trades = 2
    /\ summary.profitable_trades = 1
    /\ summary.net_pnl = 1
    /\ summary.win_rate_num = 100
    /\ summary.win_rate_den = 2

\* the steps left in the current iteration, or after the loop
Stage ==
    CASE pc = "while" -> 9
      [] pc = "pnl" -> 8
      [] pc = "risk" -> 7
      [] pc = "fetch" -> 6
      [] pc = "decide" -> 5
      [] pc = "open" -> 4
      [] pc = "end_iter" -> 3
      [] pc = "final" -> 2
      [] pc = "summary" -> 1
      [] OTHER -> 0

InLoop == pc \in {"while", "pnl", "risk", "fetch", "decide", "open", "end_iter"}

\* the time left before the runtime cap, while the session is in its loop
TimeLeft == IF InLoop /\ elapsed < MAX_RUNTIME THEN MAX_RUNTIME - elapsed ELSE 0

\* a bound on the number of steps the session can still take
Rank == 10 * TimeLeft + Stage

\* C19: the session terminates. Every run in which each call returns reaches
\* the state where the summary has been returned, whatever the signals,
\* quotes and order outcomes; and it does so for any runtime cap, because
\* Rank is a natural number that every step of manage_trades decreases (a
\* sleep takes at least one second off the time left, every other step moves
\* on within the iteration or after the loop) and a step is possible in every
\* state but the final one
C19_Terminates ==
    /\ [](Rank >= 0 /\ (Rank = 0 <=> pc = "done") /\ (pc # "done" => ENABLED Next))
    /\ [][Rank' < Rank]_vars
    /\ <>(pc = "done" /\ summary = make_summary(trade_history, current_pnl))

\* the session has returned its summary after the runtime cap ended the loop
C19_Witness ==
    /\ pc = "done"
    /\ elapsed >= MAX_RUNTIME
    /\ iteration = MAX_RUNTIME
    /\ risk_result.continue_trading
    /\ summary.total_trades >= 0

\* C20: when check_connection has failed, run_bot has returned with
\* is_running False, no trading cycle run, no order placed, no trade counted
\* or recorded, and without going through its loop or its shutdown
C20_FailedCheckIsFatal ==
    bot.connection = "failed" =>
        /\ bot.pc = "returned"
        /\ ~bot.is_running
        /\ bot.cycles = 0
        /\ bot.orders = 0
        /\ bot.daily_trades = 0
        /\ bot.trade_history = << >>
        /\ ~bot.shutdown_done

\* run_bot has returned on a connected order manager that gave no price
C20_Witness ==
    /\ bot.pc = "returned"
    /\ bot.connection = "failed"
    /\ bot.is_connected


\* the closes of a frame rise from each bar to the next
StrictlyIncreasing(closes) == \A i \in 1..(Len(closes) - 1) : closes[i] < closes[i + 1]

\* line 89 on the latest bar: its volume is above the mean volume of the
\* last 10 bars
VolumeAboveAverage(frame) ==
    LET n == Len(frame.Volume)
    IN  n >= 10 /\ 10 * frame.Volume[n] > SumSeq(frame.Volume, n - 9, n)

\* C21: a call of process_market_data whose frame is None, empty or shorter
\* than 20 bars returns 'hold': it returns, and with no other signal
C21_ShortSeriesHold ==
    (strategy.pc = "signal_ret" /\ (strategy.frame.none \/ Len(strategy.frame.Close) < 20))
        => strategy.signal = "hold"

\* a call has returned 'hold' for 19 rising bars with volume above average
C21_Witness ==
    /\ strategy.pc = "signal_ret"
    /\ ~strategy.frame.none
    /\ Len(strategy.frame.Close) = 19
    /\ StrictlyIncreasing(strategy.frame.Close)
    /\ strategy.frame.Close[19] = strategy.frame.Close[18] + 1
    /\ VolumeAboveAverage(strategy.frame)
    /\ strategy.signal = "hold"

\* two frames hold the same bars
SameSeries(f, g) == f.none = g.none /\ f.Close = g.Close /\ f.Volume = g.Volume

RisingSeriesCall ==
    /\ strategy.pc = "signal_ret"
    /\ ~strategy.frame.none
    /\ Len(strategy.frame.Close) = 20
    /\ StrictlyIncreasing(strategy.frame.Close)
    /\ VolumeAboveAverage(strategy.frame)

\* C23 as stated: every call on 20 bars of strictly increasing closes with
\* the latest volume above the 10-bar average returns 'buy'
C23_RisingSeriesBuys == RisingSeriesCall => strategy.signal = "buy"

\* C23: a call on 20 bars of strictly increasing closes with the latest
\* volume above the 10-bar average returns 'buy' when the gap between the
\* 9-EMA and the 15-EMA is wider on the latest bar than on the bar before,
\* and 'hold' otherwise
C23_RisingSeriesBuysWhenWidening ==
    RisingSeriesCall =>
        strategy.signal = (IF conditions(strategy.frame).gap_up_widening THEN "buy" ELSE "hold")

\* a call has returned 'buy' for 20 bars rising by one step per bar
C23_Witness ==
    /\ RisingSeriesCall
    /\ \A i \in 1..19 : strategy.frame.Close[i + 1] = strategy.frame.Close[i] + 1
    /\ conditions(strategy.frame).gap_up_widening
    /\ strategy.signal = "buy"

\* the confirmation of a buy on the latest bar: close above both EMAs, close
\* above the previous close, volume above the 10-bar average
BuyConfirmed(c) == c.price_above_emas /\ c.bullish_momentum /\ c.volume_confirmation

\* the confirmation of a sell: close below both EMAs, close below the
\* previous close, volume above the 10-bar average
SellConfirmed(c) == c.price_below_emas /\ c.bearish_momentum /\ c.volume_confirmation

\* C30: a call returns 'buy' only for a frame with the buy confirmation and
\* 'sell' only for a frame with the sell confirmation; no frame has both
\* confirmations, and every frame without them (None, or too short to have
\* a previous bar and indicators) gets 'hold'
C30_SignalOnlyWhenConfirmed ==
    strategy.pc = "signal_ret" =>
        IF strategy.frame.none \/ Len(strategy.frame.Close) < 3
        THEN strategy.signal = "hold"
        ELSE LET c == conditions(strategy.frame)
             IN  /\ strategy.signal \in {"buy", "sell", "hold"}
                 /\ strategy.signal = "buy" => BuyConfirmed(c)
                 /\ strategy.signal = "sell" => SellConfirmed(c)
                 /\ ~(BuyConfirmed(c) /\ SellConfirmed(c))

\* a call has returned 'sell' on a fresh bearish crossover with its
\* confirmation
C30_Witness ==
    /\ strategy.pc = "signal_ret"
    /\ strategy.signal = "sell"
    /\ SellConfirmed(conditions(strategy.frame))
    /\ conditions(strategy.frame).bearish_crossover

\* C24: every sell is issued in a state whose tracked position is Holding and
\* every buy in a state whose tracked position is Flat, in the risk step, in
\* the signal step and in the close after the loop
C24_OrdersMatchPosition ==
    [][ Len(iter_orders') = Len(iter_orders) + 1 =>
            /\ LastOrder(iter_orders').side = "sell" => Holding
            /\ LastOrder(iter_orders').side = "buy" => Flat ]_vars

\* the loop was left Holding and the close after the loop has sold the
\* position, after an iteration that bought it while Flat
C24_Witness ==
    /\ pc = "summary"
    /\ Len(iter_orders) = 2
    /\ iter_orders[1].side = "buy"
    /\ iter_orders[1].ok
    /\ ~iter_orders[1].held
    /\ iter_orders[2].side = "sell"
    /\ iter_orders[2].phase = "final"
    /\ iter_orders[2].held
    /\ Flat

\* C25: the unrealized P&L handed to check_risk is (live price - entry price)
\* times the quantity when a position is tracked and its quote was available,
\* and 0 when no position is tracked
C25_UnrealizedPnlDefinition ==
    pc = "risk" =>
        /\ (Holding /\ hist.quote # NoPrice) =>
               current_position_pnl = (hist.quote - position_entry_price) * QUANTITY
        /\ Flat => current_position_pnl = 0

\* C26: a step appends one record to trade_history, keeping the records it
\* holds, when it is a close_position call whose sell is filled; every other
\* step (a buy, a rejected sell, the risk gate, the signal) leaves the ledger
\* as it is. The ledger being empty at the start, its length is the number
\* of filled sells.
C26_LedgerCountsFilledSells ==
    [][ IF Issued("sell", TRUE)
        THEN /\ Len(trade_history') = Len(trade_history) + 1
             /\ SubSeq(trade_history', 1, Len(trade_history)) = trade_history
        ELSE trade_history' = trade_history ]_vars

\* the session ended with one record in the ledger after two sells, the
\* second of them, issued by the close after the loop, rejected
C26_Witness ==
    /\ pc = "summary"
    /\ Len(trade_history) = 1
    /\ iter_orders # << >>
    /\ LastOrder(iter_orders).side = "sell"
    /\ LastOrder(iter_orders).phase = "final"
    /\ ~LastOrder(iter_orders).ok

\* the record a filled sell has appended
LastRecord(th) == th[Len(th)]

\* C27: the record of a filled sell carries the entry price the position was
\* tracked with, the exit quote, and their difference times the quantity as
\* its P&L, and the realized P&L grows by that P&L; when the exit quote is
\* unavailable the exit price is the entry price, the P&L is 0 and the
\* realized P&L is unchanged
C27_RecordPnl ==
    [][ Issued("sell", TRUE) =>
            LET r == LastRecord(trade_history')
            IN  /\ r.entry_price = position_entry_price
                /\ r.quantity = QUANTITY
                /\ r.pnl = (r.exit_price - r.entry_price) * QUANTITY
                /\ current_pnl' = current_pnl + r.pnl
                /\ IF hist'.exit_quote = NoPrice
                   THEN r.exit_price = r.entry_price /\ r.pnl = 0 /\ current_pnl' = current_pnl
                   ELSE r.exit_price = hist'.exit_quote ]_vars

\* a position bought at 2 has been sold at 1: the record has P&L -1 and the
\* realized P&L is -1
C27_Witness ==
    /\ pc = "open"
    /\ hist.exit_quote = 1
    /\ Len(trade_history) = 1
    /\ trade_history[1].entry_price = 2
    /\ trade_history[1].exit_price = 1
    /\ trade_history[1].pnl = 0 - 1
    /\ current_pnl = 0 - 1

\* C28: every buy is issued in a state whose realized P&L is above
\* -MAX_DAILY_LOSS and whose ledger holds fewer than MAX_TRADES_PER_DAY
\* records, also when the signal step has closed a position just before
C28_NoBuyPastLimits ==
    [][ Issued("buy", TRUE) \/ Issued("buy", FALSE) =>
            /\ current_pnl > 0 - MAX_DAILY_LOSS
            /\ Len(trade_history) < MAX_TRADES_PER_DAY ]_vars

\* C29: the ledger holds at most one record of the current iteration, at
\* most MAX_TRADES_PER_DAY records when check_risk is evaluated, and at most
\* MAX_TRADES_PER_DAY + 1 records when the summary is produced
C29_LedgerBounds ==
    /\ Cardinality(ClosedThisIteration) <= 1
    /\ pc = "risk" => Len(trade_history) <= MAX_TRADES_PER_DAY
    /\ pc \in {"summary", "done"} => Len(trade_history) <= MAX_TRADES_PER_DAY + 1

\* the gate has stopped the session at MAX_TRADES_PER_DAY records while a
\* position was held; its close has brought the ledger to one record more
C29_Witness ==
    /\ pc = "summary"
    /\ risk_result.reason = "MAX_TRADES_PER_DAY"
    /\ Len(trade_history) = MAX_TRADES_PER_DAY + 1
    /\ Cardinality(ClosedThisIteration) = 1

\* C31: in G_trade_manager.manage_trades an iteration runs, and so an order
\* is placed, only when the check_risk call of the loop test has reported
\* continue_trading = True
C31_RiskStopEndsLoop ==
    pc \in {"g_signal", "g_act"} => risk_result.continue_trading

\* C32: once run_bot has gone through its finally clause and shutdown has
\* returned, no position opened by the bot remains open at the broker
C32_ShutdownLeavesNoPosition ==
    bot.shutdown_done => bot.position = 0

\* C33: whatever cycles have run, daily_trades is at most the configured
\* max_daily_trades and equals the number of records in trade_history
C33_DailyTradesBounded ==
    /\ bot.daily_trades <= max_daily_trades
    /\ bot.daily_trades = Len(bot.trade_history)

\* the limit is reached and a further cycle has run
C33_Witness ==
    /\ bot.daily_trades = max_daily_trades
    /\ bot.cycles > max_daily_trades

\* C34: a cycle whose execute_trade call placed no order (execute_signal
\* returned None or an empty order list) leaves last_signal, last_signal_time,
\* daily_trades and trade_history as they were, so should_trade answers the
\* next cycle's signal as it would have answered before the attempt
C34_NoOrderNoRecord ==
    [][ (/\ bot.pc = "cycle"
         /\ bot'.attempt.called
         /\ bot'.attempt.orders \in {NoResult, 0})
        => /\ bot'.last_signal = bot.last_signal
           /\ bot'.last_signal_time = bot.last_signal_time
           /\ bot'.daily_trades = bot.daily_trades
           /\ bot'.trade_history = bot.trade_history
           /\ \A h \in BotHours, t \in BotTimes, s \in BotSignals, p \in PositionCounts :
                 should_trade(bot', h, t, s, p) = should_trade(bot, h, t, s, p) ]_vars

\* after a recorded trade, a cycle's execute_trade call placed no order
C34_Witness ==
    /\ bot.attempt.called
    /\ bot.attempt.orders = 0
    /\ bot.daily_trades = 1
    /\ bot.attempt.signal # bot.last_signal

\* C35: the records of trade_history carry strictly increasing signal
\* timestamps, two consecutive records never carry the same signal value, and
\* no record carries the hold signal 0
C35_HistoryAlternates ==
    LET th == bot.trade_history
    IN  /\ \A i \in 1..Len(th) : th[i].signal \in {0 - 1, 1}
        /\ \A i \in 1..(Len(th) - 1) :
              /\ th[i].timestamp < th[i + 1].timestamp
              /\ th[i].signal # th[i + 1].signal

\* a sell recorded after a buy, followed by a further cycle
C35_Witness ==
    /\ Len(bot.trade_history) = 2
    /\ bot.trade_history[1].signal = 1
    /\ bot.trade_history[2].signal = 0 - 1
    /\ bot.cycles = 3

\* the frame returned by the supertrend call of this state
Returned == IF strategy.pc = "supertrend_ret" THEN strategy.result ELSE << >>

\* C36: in the frame supertrend returns, trend is 1 or -1 in every row; the
\* signal of a row is 1 exactly when the trend goes from -1 in the row before
\* to 1, -1 exactly when it goes from 1 to -1, and 0 otherwise, so 0 in the
\* first row; successive non-zero signals have opposite signs
C36_SignalMarksTrendChange ==
    LET st == Returned
    IN  /\ \A i \in 1..Len(st) :
              /\ st[i].trend \in {0 - 1, 1}
              /\ st[i].signal \in {0 - 1, 0, 1}
              /\ st[i].signal = 1 <=> (i > 1 /\ st[i - 1].trend = 0 - 1 /\ st[i].trend = 1)
              /\ st[i].signal = 0 - 1 <=> (i > 1 /\ st[i - 1].trend = 1 /\ st[i].trend = 0 - 1)
        /\ \A i, j \in 1..Len(st) :
              (/\ i < j
               /\ st[i].signal # 0
               /\ st[j].signal # 0
               /\ \A k \in (i + 1)..(j - 1) : st[k].signal = 0)
              => st[j].signal = 0 - st[i].signal

\* a returned frame with a sell, a buy and a sell signal in turn
C36_Witness ==
    /\ Len(Returned) = 4
    /\ Returned[2].signal = 0 - 1
    /\ Returned[3].signal = 1
    /\ Returned[4].signal = 0 - 1

\* the rows of the table that have the requested option type
RequestedRows ==
    { i \in 1..Len(hist.instruments_df) :
        hist.instruments_df[i].instrument_type = hist.option_type }

\* C37: get_atm_option_instrument returns None when the table has no row of
\* the requested option type; otherwise it returns the key of a row of that
\* type whose strike is nearest the underlying price among the rows of that type
C37_NearestStrike ==
    pc = "atm_ret" =>
        IF RequestedRows = {} THEN position_instrument = NoneStr
        ELSE \E i \in RequestedRows :
                /\ hist.instruments_df[i].instrument_key = position_instrument
                /\ \A j \in RequestedRows :
                      Abs(hist.instruments_df[i].strike - hist.underlying_price)
                        <= Abs(hist.instruments_df[j].strike - hist.underlying_price)

\* the day of the week of a date, Monday being 0
DayOfWeek(d) == (d - 1) % 7

\* C38: get_expiry_weekly_current_week returns a Thursday that is 0 to 6 days
\* ahead of today: today's date when today is a Thursday, otherwise the first
\* Thursday after today
C38_UpcomingThursday ==
    pc = "expiry_ret" =>
        LET today == hist.today.day
            expiry == hist.expiry
        IN  /\ DayOfWeek(expiry) = 3
            /\ expiry - today \in 0..6
            /\ DayOfWeek(today) = 3 => expiry = today
            /\ DayOfWeek(today) # 3 =>
                  /\ expiry > today
                  /\ \A d \in (today + 1)..(expiry - 1) : DayOfWeek(d) # 3

\* the call made late on a Friday returns the Thursday six days later
C38_Witness ==
    /\ pc = "expiry_ret"
    /\ DayOfWeek(hist.today.day) = 4
    /\ hist.today.hour = 23
    /\ hist.expiry = hist.today.day + 6

============================================================================
